---- MODULE Spec2Model ----
(***************************************************************************)
(* Verification model of the ecommerce payment code: the CyberSource       *)
(* processor (edx_cybersource_plugin/processors.py) and the checkout views *)
(* built on it (extensions/payment/views/cybersource.py).                  *)
(*                                                                         *)
(* Texts are sequences of symbols.  A symbol is a TLA+ string that stands  *)
(* for an indivisible piece of text: a parameter name, the separators ","  *)
(* and "=", or a piece of a value.  Dictionaries are functions from        *)
(* parameter names to texts; str() of a number is applied where the code   *)
(* applies it, so every dictionary value is the text that is formatted     *)
(* into the signed message and sent on the wire.                           *)
(***************************************************************************)
EXTENDS Integers, Sequences, FiniteSets, TLC

VARIABLES
    proc,       \* one use of the payment processor: parameters, response, verdict
    baskets,    \* database: status of every basket
    orders,     \* database: the orders placed, by basket
    payments,   \* database: payment sources/events recorded by handle_payment
    audits,     \* database: PaymentProcessorResponse audit rows
    issued,     \* signed parameter sets returned to a browser, by transaction
    req,        \* the HTTP requests in flight, one record per request slot
    sdn,        \* sanctions screening: the calls made, the SDNCheckFailure rows
    credit,     \* refunds: the calls of issue_credit, the responses recorded
    ent,        \* enterprise entitlements: the cached learner data, the last lookup
    sel,        \* voucher selection: the call made for a product and its result
    cache,      \* catalog query caches: the stored responses, the calls made
    rng,        \* offer ranges: the last Range creation and its outcome
    trunc,      \* middle_truncate: the last call and its outcome
    learners,   \* enterprise learner data: the cache shared by the learners of a site
    offer,      \* conditional offers: the last eligibility check and its outcome
    summary,    \* basket summary: the last switch POST, the basket before and after it
    sail        \* Sailthru handlers: the campaign attribute of the basket, the last signal handled

vars == <<proc, baskets, orders, payments, audits, issued, req, sdn, credit, ent, sel, cache, rng, trunc, learners, offer, summary, sail>>

checkoutVars == <<baskets, orders, payments, audits, issued, req>>

----------------------------------------------------------------------------
(* Bounds *)

MaxLines == 1        \* basket lines of a generated parameter set
MaxTextLen == 2      \* symbols of a caller-supplied or tampered value
MaxReq == 3          \* HTTP requests of one behaviour
MaxChecks == 2       \* sanctions screenings of one behaviour
MaxCredits == 2      \* refunds of one behaviour
MaxEntitlements == 2 \* entitlements of a learner, vouchers of a lookup
MaxLookups == 2      \* entitlement lookups of one behaviour
MaxTokens == 2       \* entries of a course_seat_types string
MaxStringLen == 6    \* characters of a string given to middle_truncate
MaxLabels == 3       \* labels of the domain of an email address
MaxQuantity == 4     \* quantity of a basket line

----------------------------------------------------------------------------
(* Dictionaries and texts *)

EmptyDict == [k \in {} |-> <<>>]

Keys(d) == DOMAIN d

\* dict.update(other)
Update(d, other) ==
    [k \in (DOMAIN d) \cup (DOMAIN other) |->
        IF k \in DOMAIN other THEN other[k] ELSE d[k]]

\* d[key] = value
SetItem(d, key, value) == Update(d, [k \in {key} |-> value])

\* dict.pop(key, None): the dictionary without the key
Pop(d, key) == [k \in (DOMAIN d) \ {key} |-> d[k]]

RECURSIVE Join(_, _)
\* sep.join(parts), for a sequence of texts
Join(sep, parts) ==
    IF parts = <<>> THEN <<>>
    ELSE IF Len(parts) = 1 THEN parts[1]
    ELSE parts[1] \o sep \o Join(sep, Tail(parts))

RECURSIVE Split(_, _)
\* text.split(sep) for a one-symbol separator: always at least one part
Split(text, sep) ==
    IF \A i \in 1..Len(text) : text[i] # sep THEN <<text>>
    ELSE LET i == CHOOSE j \in 1..Len(text) :
                      text[j] = sep /\ \A h \in 1..(j-1) : text[h] # sep
         IN <<SubSeq(text, 1, i-1)>> \o Split(SubSeq(text, i+1, Len(text)), sep)

\* the texts of at most n symbols over an alphabet
TextsUpTo(alphabet, n) == UNION {[1..m -> alphabet] : m \in 0..n}

\* str(n) for the small naturals the model uses: one symbol
str(n) == <<ToString(n)>>

----------------------------------------------------------------------------
(* The CyberSource processor: edx_cybersource_plugin/processors.py *)

PCI_FIELDS == {"card_cvn", "card_expiry_date", "card_number", "card_type"}

\* The processor's configuration (CybersourceMixin.__init__)
access_key == <<"ak">>
profile_id == <<"pid">>
secret_key == "sk"
language_code == <<"en">>

\* helpers.sign: HMAC-SHA256 of the message under the key, base64-encoded.
\* The digest is modelled as the text that names the key and the message:
\* equal digests exactly for equal (key, message) pairs.
sign(message, secret) == <<"hmac", secret>> \o message

\* The parameter names in the order sorted() gives them (code point order),
\* the per-line names item_<n>_* in their place for line n.
KeysBeforeItems ==
    << "access_key", "amex_data_taa1", "amount", "auth_amount",
       "bill_to_address_city", "bill_to_address_country",
       "bill_to_address_line1", "bill_to_address_line2",
       "bill_to_address_postal_code", "bill_to_address_state",
       "bill_to_email", "bill_to_forename", "bill_to_surname",
       "card_cvn", "card_expiry_date", "card_number", "card_type",
       "consumer_id", "currency", "decision", "device_fingerprint_id" >>

ItemSuffixes ==
    << "_code", "_discount_amount ", "_gross_net_indicator", "_name",
       "_quantity", "_sku", "_tax_amount", "_tax_rate", "_total_amount ",
       "_unit_of_measure", "_unit_price" >>

KeysAfterItems ==
    << "line_item_count", "locale", "payment_method", "payment_page_url",
       "profile_id", "purchasing_level", "reference_number", "req_amount",
       "req_bill_to_address_city", "req_bill_to_address_country",
       "req_bill_to_address_line1", "req_bill_to_forename",
       "req_bill_to_surname", "req_card_number", "req_card_type", "req_currency",
       "req_reference_number", "signature", "signed_date_time",
       "signed_field_names", "transaction_id", "transaction_type",
       "transaction_uuid", "unsigned_field_names", "user_po" >>

\* 'item_{}_<suffix>'.format(index)
ItemKey(index, suffix) == "item_" \o ToString(index) \o suffix

RECURSIVE ItemKeysFrom(_, _)
ItemKeysFrom(index, count) ==
    IF index >= count THEN <<>>
    ELSE [i \in 1..Len(ItemSuffixes) |-> ItemKey(index, ItemSuffixes[i])]
         \o ItemKeysFrom(index + 1, count)

\* every parameter name of the model, sorted (line indexes stay below 10)
KeyOrder == KeysBeforeItems \o ItemKeysFrom(0, MaxLines + 1) \o KeysAfterItems

sorted_reversed(keys) ==
    LET ordered == SelectSeq(KeyOrder, LAMBDA k : k \in keys)
    IN [i \in 1..Len(ordered) |-> ordered[Len(ordered) + 1 - i]]

\* sorted(parameters.keys())
sorted(keys) == SelectSeq(KeyOrder, LAMBDA k : k \in keys)

\* parameters.get(key) formatted by '{value}'.format: the value, or 'None'
\* for a name the dictionary does not hold.  A name is a one-symbol text.
FormatGet(parameters, key) ==
    IF Len(key) = 1 /\ key[1] \in DOMAIN parameters
    THEN parameters[key[1]] ELSE <<"None">>

_generate_signature_names_only(parameters) ==
    sign(parameters["signed_field_names"], secret_key)

\* CybersourceMixin._generate_signature (needs parameters['signed_field_names'])
_generate_signature(parameters) ==
    LET keys == Split(parameters["signed_field_names"], ",")
        message == Join(<<",">>,
                        [i \in 1..Len(keys) |->
                            keys[i] \o <<"=">> \o FormatGet(parameters, keys[i])])
    IN sign(message, secret_key)

\* _generate_signature indexes parameters['signed_field_names'] (line 217):
\* a non-empty response without that field is a KeyError
SignatureRaises(response) ==
    DOMAIN response # {} /\ "signed_field_names" \notin DOMAIN response

\* CybersourceMixin.is_signature_valid:
\*   response and (self._generate_signature(response) == response.get('signature'))
\* for a response on which _generate_signature does not raise
is_signature_valid(response) ==
    /\ DOMAIN response # {}
    /\ "signed_field_names" \in DOMAIN response
    /\ "signature" \in DOMAIN response
    /\ _generate_signature(response) = response["signature"]

\* The parameters of basket line `index` (0-based), lines 120-133
LineParameters(index, line) ==
    [k \in {ItemKey(index, ItemSuffixes[i]) : i \in 1..Len(ItemSuffixes)} |->
        CASE k = ItemKey(index, "_code") -> line.slug
          [] k = ItemKey(index, "_discount_amount ") -> line.discount_value
          [] k = ItemKey(index, "_gross_net_indicator") -> <<"Y">>
          [] k = ItemKey(index, "_name") -> line.title
          [] k = ItemKey(index, "_quantity") -> str(line.quantity)
          [] k = ItemKey(index, "_sku") -> line.partner_sku
          [] k = ItemKey(index, "_tax_amount") -> line.line_tax
          [] k = ItemKey(index, "_tax_rate") -> <<"0">>
          [] k = ItemKey(index, "_total_amount ") -> line.line_price
          [] k = ItemKey(index, "_unit_of_measure") -> <<"ITM">>
          [] OTHER -> line.unit_price]

RECURSIVE AllLineParameters(_, _)
AllLineParameters(lines, index) ==
    IF index >= Len(lines) THEN EmptyDict
    ELSE Update(LineParameters(index, lines[index + 1]),
                AllLineParameters(lines, index + 1))

\* The defaults of _generate_parameters, lines 96-109
DefaultParameters(basket, uuid, now) ==
    [k \in {"access_key", "profile_id", "transaction_uuid", "signed_field_names",
            "unsigned_field_names", "signed_date_time", "locale",
            "transaction_type", "reference_number", "amount", "currency",
            "consumer_id"} |->
        CASE k = "access_key" -> access_key
          [] k = "profile_id" -> profile_id
          [] k = "transaction_uuid" -> uuid
          [] k = "signed_field_names" -> <<>>
          [] k = "unsigned_field_names" -> <<>>
          [] k = "signed_date_time" -> now
          [] k = "locale" -> language_code
          [] k = "transaction_type" -> <<"sale">>
          [] k = "reference_number" -> basket.order_number
          [] k = "amount" -> basket.total_incl_tax
          [] k = "currency" -> basket.currency
          [] OTHER -> basket.owner]

\* The level 2/3 details of _generate_parameters, lines 112-133
Level23Parameters(basket) ==
    Update([k \in {"amex_data_taa1", "purchasing_level", "line_item_count", "user_po"} |->
               CASE k = "amex_data_taa1" -> basket.site_name
                 [] k = "purchasing_level" -> <<"3">>
                 [] k = "line_item_count" -> str(Len(basket.lines))
                 [] OTHER -> <<"BLANK">>],
           AllLineParameters(basket.lines, 0))

ViolatesPCI_all(parameters) ==
    \A pci_field \in PCI_FIELDS : pci_field \in DOMAIN parameters

\* The PCI guard of _generate_parameters, lines 139-140:
\*   any(pci_field in signed_field_names for pci_field in self.PCI_FIELDS)
ViolatesPCI(parameters) ==
    \E pci_field \in PCI_FIELDS : pci_field \in DOMAIN parameters

\* CybersourceMixin._generate_parameters: the dictionary, or PCIViolation raised
_generate_parameters(basket, send_level_2_3_details, extra_parameters, uuid, now) ==
    LET defaults == DefaultParameters(basket, uuid, now)
        detailed == IF send_level_2_3_details
                    THEN Update(defaults, Level23Parameters(basket))
                    ELSE defaults
        parameters == Update(detailed, extra_parameters)
    IN IF ViolatesPCI(parameters)
       THEN [raised |-> "PCIViolation", value |-> EmptyDict]
       ELSE [raised |-> "none", value |-> parameters]

\* CybersourceMixin.get_transaction_parameters
get_transaction_parameters(basket, send_level_2_3_details, extra_parameters, uuid, now) ==
    LET generated == _generate_parameters(basket, send_level_2_3_details,
                                          extra_parameters, uuid, now)
        named == SetItem(generated.value, "signed_field_names",
                         Join(<<",">>, [i \in 1..Len(sorted(DOMAIN generated.value)) |->
                                           <<sorted(DOMAIN generated.value)[i]>>]))
    IN IF generated.raised # "none" THEN generated
       ELSE [raised |-> "none",
             value |-> SetItem(named, "signature", _generate_signature(named))]

\* str.lower() on the decision texts of the model
LowerSymbol(symbol) ==
    CASE symbol = "ACCEPT" -> "accept"
      [] symbol = "Accept" -> "accept"
      [] symbol = "CANCEL" -> "cancel"
      [] symbol = "Cancel" -> "cancel"
      [] symbol = "DECLINE" -> "decline"
      [] symbol = "Decline" -> "decline"
      [] symbol = "ERROR" -> "error"
      [] symbol = "Error" -> "error"
      [] symbol = "REVIEW" -> "review"
      [] symbol = "Review" -> "review"
      [] symbol = "ACCEPTED" -> "accepted"
      [] symbol = "Accepted" -> "accepted"
      [] OTHER -> symbol

lower_unchanged(text) == text

lower(text) == [i \in 1..Len(text) |-> LowerSymbol(text[i])]

\* constants.CYBERSOURCE_CARD_TYPE_MAP.get(code): the brand, or None
CYBERSOURCE_CARD_TYPE_MAP(code) ==
    CASE code = <<"001">> -> "visa"
      [] code = <<"002">> -> "mastercard"
      [] code = <<"003">> -> "american_express"
      [] code = <<"004">> -> "discover"
      [] OTHER -> "None"

\* Decimal(text) for the amounts of the model, in cents
Decimal(text) ==
    CASE text = <<"10.00">> -> 1000
      [] text = <<"10.0">> -> 1000
      [] text = <<"9.99">> -> 999
      [] text = <<"10.01">> -> 1001
      [] text = <<"100.00">> -> 10000
      [] OTHER -> 0

\* the fields handle_processor_response indexes, in the order it reads them
ResponseFieldsRead ==
    <<"decision", "auth_amount", "req_amount", "req_currency", "transaction_id",
      "req_card_number", "req_card_type">>

\* the exception of a decision other than accept, lines 177-181
DecisionException(decision) ==
    CASE decision = <<"cancel">> -> "UserCancelled"
      [] decision = <<"decline">> -> "TransactionDeclined"
      [] decision = <<"error">> -> "GatewayError"
      [] OTHER -> "InvalidCybersourceDecision"

Raise(exception) == [raised |-> exception, value |-> <<>>]

handle_processor_response_any_amount(response) ==
    IF SignatureRaises(response) THEN Raise("KeyError")
    ELSE IF ~ is_signature_valid(response) THEN Raise("InvalidSignatureError")
    ELSE IF "decision" \notin DOMAIN response THEN Raise("KeyError")
    ELSE IF lower(response["decision"]) # <<"accept">>
         THEN Raise(DecisionException(lower(response["decision"])))
    ELSE IF \E i \in 1..Len(ResponseFieldsRead) :
                ResponseFieldsRead[i] \notin DOMAIN response
         THEN Raise("KeyError")
    ELSE [raised |-> "none",
          value |-> <<response["transaction_id"], Decimal(response["req_amount"]),
                      response["req_currency"], response["req_card_number"],
                      CYBERSOURCE_CARD_TYPE_MAP(response["req_card_type"])>>]

handle_processor_response_indexes_map(response) ==
    LET handled == handle_processor_response_any_amount(response)
    IN IF handled.raised # "none" THEN handled
       ELSE IF response["auth_amount"] # response["req_amount"]
       THEN Raise("PartialAuthorizationError")
       ELSE IF handled.value[5] = "None" THEN Raise("KeyError")
       ELSE handled

handle_processor_response_amount_first(response) ==
    IF /\ is_signature_valid(response)
       /\ \A k \in {"auth_amount", "req_amount"} : k \in DOMAIN response
       /\ response["auth_amount"] # response["req_amount"]
    THEN Raise("PartialAuthorizationError")
    ELSE handle_processor_response_any_amount(response)

\* CybersourceMixin.handle_processor_response: the 5-tuple, or the exception raised
handle_processor_response(response) ==
    IF SignatureRaises(response) THEN Raise("KeyError")
    ELSE IF ~ is_signature_valid(response) THEN Raise("InvalidSignatureError")
    ELSE IF "decision" \notin DOMAIN response THEN Raise("KeyError")
    ELSE IF lower(response["decision"]) # <<"accept">>
         THEN Raise(DecisionException(lower(response["decision"])))
    ELSE IF \E k \in {"auth_amount", "req_amount"} : k \notin DOMAIN response
         THEN Raise("KeyError")
    ELSE IF response["auth_amount"] # response["req_amount"]
         THEN Raise("PartialAuthorizationError")
    ELSE IF \E i \in 1..Len(ResponseFieldsRead) :
                ResponseFieldsRead[i] \notin DOMAIN response
         THEN Raise("KeyError")
    ELSE [raised |-> "none",
          value |-> <<response["transaction_id"], Decimal(response["req_amount"]),
                      response["req_currency"], response["req_card_number"],
                      CYBERSOURCE_CARD_TYPE_MAP(response["req_card_type"])>>]

IsPaymentError_without_partial(exception) ==
    exception \in {"PaymentError", "GatewayError", "UserCancelled",
                   "TransactionDeclined", "InvalidSignatureError",
                   "InvalidCybersourceDecision", "PCIViolation"}

\* The exception classes: PaymentError and its subclasses
\* (GatewayError, UserCancelled and TransactionDeclined are PaymentErrors;
\* InvalidSignatureError and InvalidCybersourceDecision are GatewayErrors;
\* PartialAuthorizationError and PCIViolation are PaymentErrors)
IsPaymentError(exception) ==
    exception \in {"PaymentError", "GatewayError", "UserCancelled",
                   "TransactionDeclined", "InvalidSignatureError",
                   "InvalidCybersourceDecision", "PartialAuthorizationError",
                   "PCIViolation"}

----------------------------------------------------------------------------
(* One use of the processor: a caller asks for signed parameters, the      *)
(* parameters travel (possibly changed in one field) and come back to      *)
(* is_signature_valid.                                                     *)

NoBasketLine ==
    [slug |-> <<"seat">>, discount_value |-> <<"0.00">>, title |-> <<"Course">>,
     quantity |-> 1, partner_sku |-> <<"SKU1">>, line_tax |-> <<"0.00">>,
     line_price |-> <<"10.00">>, unit_price |-> <<"10.00">>]

\* The baskets handed to the processor: 0..MaxLines identical lines
ProcessorBaskets ==
    {[order_number |-> <<"EDX-100001">>,
      total_incl_tax |-> IF n = 0 THEN <<"0.00">> ELSE <<"10.00">>,
      currency |-> <<"USD">>, owner |-> <<"learner">>, site_name |-> <<"site">>,
      lines |-> [i \in 1..n |-> NoBasketLine]] : n \in 0..MaxLines}

\* The symbols of caller-supplied and of tampered values: a plain piece of
\* text, the two separators of the signed message and a parameter name
ValueAlphabet == {"x", ",", "=", "amount"}

ValueTexts == TextsUpTo(ValueAlphabet, MaxTextLen)

\* The names a caller may pass in extra_parameters
ExtraNames ==
    PCI_FIELDS \cup {"payment_method", "amount", "unsigned_field_names"}

\* extra_parameters: at most two names, each with a one-symbol value or the
\* value the submit view gives unsigned_field_names
ExtraValues ==
    {<<"x">>, <<"card_cvn", ",", "card_expiry_date", ",", "card_number", ",", "card_type">>}

ExtraParameters ==
    UNION {[names -> ExtraValues] :
              names \in {n \in SUBSET ExtraNames : Cardinality(n) <= 2}}

ProcIdle ==
    [phase |-> "idle", extra |-> EmptyDict, lines |-> 0, level23 |-> FALSE,
     raised |-> "none", result |-> EmptyDict, response |-> EmptyDict,
     changed |-> "none", verdict |-> FALSE,
     word |-> "none", auth_amount |-> <<>>, req_amount |-> <<>>,
     handled |-> [raised |-> "none", value |-> <<>>]]

\* a caller invokes get_transaction_parameters(basket, extra_parameters=...)
CallGetTransactionParameters(basket, level23, extra, uuid) ==
    /\ proc.phase = "idle"
    /\ LET got == get_transaction_parameters(basket, level23, extra, uuid,
                                             <<"2017-01-01T00:00:00Z">>)
       IN proc' = [proc EXCEPT
                     !.phase = IF got.raised = "none" THEN "returned" ELSE "raised",
                     !.extra = extra, !.lines = Len(basket.lines),
                     !.level23 = level23,
                     !.raised = got.raised, !.result = got.value]
    /\ UNCHANGED <<checkoutVars, sdn, credit, ent, sel, cache, rng, trunc, learners, offer, summary, sail>>

\* the returned dictionary comes back as it was
EchoParameters ==
    /\ proc.phase = "returned"
    /\ proc' = [proc EXCEPT !.phase = "received", !.response = proc.result]
    /\ UNCHANGED <<checkoutVars, sdn, credit, ent, sel, cache, rng, trunc, learners, offer, summary, sail>>

\* the names listed in the signed_field_names of a dictionary
SignedNames(parameters) ==
    LET listed == Split(parameters["signed_field_names"], ",")
    IN {listed[i][1] : i \in {j \in 1..Len(listed) : Len(listed[j]) = 1}}

\* the returned dictionary comes back with the value of one signed field
\* changed and the signature left as it was
TamperParameters ==
    /\ proc.phase = "returned"
    /\ \E field \in SignedNames(proc.result) \cap DOMAIN proc.result :
        \E value \in ValueTexts \ {proc.result[field]} :
            proc' = [proc EXCEPT !.phase = "received", !.changed = field,
                                 !.response = SetItem(proc.result, field, value)]
    /\ UNCHANGED <<checkoutVars, sdn, credit, ent, sel, cache, rng, trunc, learners, offer, summary, sail>>

\* is_signature_valid(response)
VerifySignature ==
    /\ proc.phase = "received"
    /\ proc' = [proc EXCEPT !.phase = "verified",
                            !.verdict = is_signature_valid(proc.response)]
    /\ UNCHANGED <<checkoutVars, sdn, credit, ent, sel, cache, rng, trunc, learners, offer, summary, sail>>

\* The decisions a response may carry: the four the gateway documents, one
\* it may add and one that only starts like a known one
DecisionWords == {"accept", "cancel", "decline", "error", "review", "accepted"}

Casings == {"lower", "upper", "title"}

\* a decision word as the response spells it
Cased(word, casing) ==
    CASE casing = "lower" -> word
      [] casing = "upper" ->
            (CASE word = "accept" -> "ACCEPT" [] word = "cancel" -> "CANCEL"
               [] word = "decline" -> "DECLINE" [] word = "error" -> "ERROR"
               [] word = "review" -> "REVIEW" [] OTHER -> "ACCEPTED")
      [] OTHER ->
            (CASE word = "accept" -> "Accept" [] word = "cancel" -> "Cancel"
               [] word = "decline" -> "Decline" [] word = "error" -> "Error"
               [] word = "review" -> "Review" [] OTHER -> "Accepted")

\* the amounts of a response, as the gateway writes them
AmountTexts == {<<"10.00">>, <<"9.99">>, <<"10.01">>, <<"100.00">>}

\* A response (merchant notification) with the fields
\* handle_processor_response reads, signed over all of them with the secret
\* of the signer
SignedResponse(decision, auth_amount, req_amount, reference, secret) ==
    LET fields ==
            [k \in {"decision", "auth_amount", "req_amount", "req_currency",
                    "transaction_id", "req_card_number", "req_card_type",
                    "req_reference_number", "signed_field_names",
                    "req_bill_to_forename", "req_bill_to_surname",
                    "req_bill_to_address_line1", "req_bill_to_address_city",
                    "req_bill_to_address_country"} |->
                CASE k = "decision" -> <<decision>>
                  [] k = "auth_amount" -> auth_amount
                  [] k = "req_amount" -> req_amount
                  [] k = "req_bill_to_forename" -> <<"Ann">>
                  [] k = "req_bill_to_surname" -> <<"OHara">>
                  [] k = "req_bill_to_address_line1" -> <<"1", "Main">>
                  [] k = "req_bill_to_address_city" -> <<"Town">>
                  [] k = "req_bill_to_address_country" -> <<"US">>
                  [] k = "req_currency" -> <<"USD">>
                  [] k = "transaction_id" -> <<"t1">>
                  [] k = "req_card_number" -> <<"xxxx1111">>
                  [] k = "req_card_type" -> <<"001">>
                  [] k = "req_reference_number" -> reference
                  [] OTHER -> <<>>]
        named == SetItem(fields, "signed_field_names",
                         Join(<<",">>, [i \in 1..Len(sorted(DOMAIN fields)) |->
                                           <<sorted(DOMAIN fields)[i]>>]))
        keys == Split(named["signed_field_names"], ",")
        message == Join(<<",">>,
                        [i \in 1..Len(keys) |->
                            keys[i] \o <<"=">> \o FormatGet(named, keys[i])])
    IN SetItem(named, "signature", sign(message, secret))

\* handle_processor_response(response) for a response of the gateway
\* (signed with the shared secret) or of someone without the secret
HandleResponse(word, casing, auth_amount, req_amount, secret) ==
    /\ proc.phase = "idle"
    /\ LET response == SignedResponse(Cased(word, casing), auth_amount, req_amount,
                                      <<"EDX-100001">>, secret)
       IN proc' = [proc EXCEPT !.phase = "handled", !.response = response,
                               !.word = word, !.auth_amount = auth_amount,
                               !.req_amount = req_amount,
                               !.handled = handle_processor_response(response)]
    /\ UNCHANGED <<checkoutVars, sdn, credit, ent, sel, cache, rng, trunc, learners, offer, summary, sail>>

\* The card type codes a response may carry: the four of the table, two
\* codes outside it, no code, a brand name and a text that starts like a code
CardTypes ==
    {<<"001">>, <<"002">>, <<"003">>, <<"004">>, <<"005">>, <<"000">>, <<>>,
     <<"visa">>, <<"001", "x">>}

\* a response with its signature made again by the signer after a change
Resigned(response, secret) ==
    LET keys == Split(response["signed_field_names"], ",")
        message == Join(<<",">>,
                        [i \in 1..Len(keys) |->
                            keys[i] \o <<"=">> \o FormatGet(response, keys[i])])
    IN SetItem(response, "signature", sign(message, secret))

\* handle_processor_response(response) for an accepted payment made with a
\* card of the given type
HandleCardResponse(card_type, secret) ==
    /\ proc.phase = "idle"
    /\ LET accepted == SignedResponse("ACCEPT", <<"10.00">>, <<"10.00">>,
                                      <<"EDX-100001">>, secret)
           response == Resigned(SetItem(accepted, "req_card_type", card_type),
                                secret)
       IN proc' = [proc EXCEPT !.phase = "handled", !.response = response,
                               !.word = "accept", !.auth_amount = <<"10.00">>,
                               !.req_amount = <<"10.00">>,
                               !.handled = handle_processor_response(response)]
    /\ UNCHANGED <<checkoutVars, sdn, credit, ent, sel, cache, rng, trunc, learners, offer, summary, sail>>

\* handle_processor_response(response) for a notification that carries no
\* parameters at all
HandleMissingResponse ==
    /\ proc.phase = "idle"
    /\ proc' = [proc EXCEPT !.phase = "handled", !.response = EmptyDict,
                            !.word = "missing",
                            !.handled = handle_processor_response(EmptyDict)]
    /\ UNCHANGED <<checkoutVars, sdn, credit, ent, sel, cache, rng, trunc, learners, offer, summary, sail>>

----------------------------------------------------------------------------
(* Refunds: CybersourceMixin.issue_credit, processors.py lines 229-263 *)

\* What can go wrong inside the try block: the SOAP client cannot be built
\* (lines 231-244), runTransaction fails (lines 246-249), the response cannot
\* be recorded (lines 250-252)
CreditFailures == {"none", "build", "send", "record"}

\* The replies of the SOAP service: a request id and a decision
CreditDecisions == {"ACCEPT", "REJECT", "ERROR", "REVIEW", "accept"}

CreditReplies == [requestID : {"rid1", "rid2"}, decision : CreditDecisions]

CreditOrders == [number : {"EDX-100001", "EDX-100002"}, basket : {1}]

issue_credit_any_decision(order, reference_number, amount, currency, failure, response) ==
    IF failure # "none"
    THEN [raised |-> "GatewayError", value |-> "None", recorded |-> {}]
    ELSE [raised |-> "none", value |-> response.requestID,
          recorded |-> {[transaction |-> response.requestID,
                         basket |-> order.basket,
                         decision |-> response.decision]}]

\* issue_credit: the request id returned or the exception raised, and the
\* processor response recorded.  Every exception of the try block is logged
\* and replaced by GatewayError (lines 253-257); the decision is compared
\* after the response was recorded (lines 259-263)
issue_credit(order, reference_number, amount, currency, failure, response) ==
    LET recorded == {[transaction |-> response.requestID, basket |-> order.basket,
                      decision |-> response.decision]}
    IN IF failure # "none"
       THEN [raised |-> "GatewayError", value |-> "None", recorded |-> {}]
       ELSE IF response.decision = "ACCEPT"
       THEN [raised |-> "none", value |-> response.requestID,
             recorded |-> recorded]
       ELSE [raised |-> "GatewayError", value |-> "None", recorded |-> recorded]

NoCredit ==
    [order |-> "none", failure |-> "none", requestID |-> "none",
     decision |-> "none", raised |-> "none", value |-> "None"]

CreditIdle == [calls |-> 0, last |-> NoCredit, responses |-> {}]

\* a refund is issued for an order
CallIssueCredit(order, reference_number, amount, currency, failure, response) ==
    /\ credit.calls < MaxCredits
    /\ LET got == issue_credit(order, reference_number, amount, currency,
                               failure, response)
       IN credit' = [calls |-> credit.calls + 1,
                     last |-> [order |-> order.number, failure |-> failure,
                               requestID |-> response.requestID,
                               decision |-> response.decision,
                               raised |-> got.raised, value |-> got.value],
                     responses |-> credit.responses \cup got.recorded]
    /\ UNCHANGED <<proc, checkoutVars, sdn, ent, sel, cache, rng, trunc, learners, offer, summary, sail>>

----------------------------------------------------------------------------
(* Enterprise entitlements: enterprise/entitlements.py *)

\* The exceptions of a call to an external service: requests' ConnectionError
\* and Timeout, slumber's SlumberBaseException
ServiceFailures == {"ConnectionError", "Timeout", "SlumberBaseException"}

\* The ids an entitlement may refer to: the coupon products 1 and 2, and
\* 9, which no coupon product has
EntitlementIds == {1, 2, 9}

\* Product.objects.filter(product_class__name='Coupon'): the ids
CouponProducts == {1, 2}

\* entitlement lists of the Enterprise Service
EntitlementLists ==
    UNION {[1..n -> [entitlement_id : EntitlementIds]] : n \in 0..MaxEntitlements}

\* The shapes of an answer of the enterprise-learner endpoint
LearnerShapes ==
    {"no_results", "empty", "unaffiliated", "no_customer", "no_entitlements",
     "one", "two"}

\* The answer of the enterprise-learner endpoint (lines 124-176): a
\* dictionary, with the learner's records under 'results'
LearnerResponse(shape, entitlements) ==
    LET customer == [uuid |-> "cf24", entitlements |-> entitlements]
        other == [uuid |-> "0b0c", entitlements |-> <<[entitlement_id |-> 2]>>]
    IN CASE shape = "empty" -> EmptyDict
         [] shape = "no_results" -> [count |-> 0]
         [] shape = "unaffiliated" -> [count |-> 0, results |-> <<>>]
         [] shape = "no_customer" -> [count |-> 1, results |-> <<[user_id |-> 5]>>]
         [] shape = "no_entitlements" ->
                [count |-> 1,
                 results |-> <<[user_id |-> 5,
                                enterprise_customer |-> [uuid |-> "cf24"]]>>]
         [] shape = "one" ->
                [count |-> 1,
                 results |-> <<[user_id |-> 5, enterprise_customer |-> customer]>>]
         [] OTHER ->
                [count |-> 2,
                 results |-> <<[user_id |-> 5, enterprise_customer |-> customer],
                               [user_id |-> 5, enterprise_customer |-> other]>>]

\* get_enterprise_learner_data, lines 111-195: the cached answer if there
\* is one that is not empty, else the answer of the Enterprise Service,
\* which is cached.  `cached` holds at most one answer; `failure` and
\* `answer` are what the service does if it is called
get_enterprise_learner_data(cached, failure, answer) ==
    IF Len(cached) = 1 /\ DOMAIN cached[1] # {}
    THEN [raised |-> "none", value |-> cached[1], cache |-> cached, called |-> FALSE]
    ELSE IF failure # "none"
    THEN [raised |-> failure, value |-> EmptyDict, cache |-> cached, called |-> TRUE]
    ELSE [raised |-> "none", value |-> answer, cache |-> <<answer>>, called |-> TRUE]

get_entitlements_for_learner_propagates(cached, failure, answer) ==
    LET got == get_enterprise_learner_data(cached, failure, answer)
        data == got.value["results"]
    IN IF got.raised # "none"
       THEN [raised |-> got.raised, value |-> <<>>, cache |-> got.cache]
       ELSE IF "results" \notin DOMAIN got.value \/ Len(data) = 0
       THEN [raised |-> "none", value |-> <<>>, cache |-> got.cache]
       ELSE IF "enterprise_customer" \notin DOMAIN data[1]
       THEN [raised |-> "none", value |-> <<>>, cache |-> got.cache]
       ELSE IF "entitlements" \notin DOMAIN data[1]["enterprise_customer"]
       THEN [raised |-> "none", value |-> <<>>, cache |-> got.cache]
       ELSE [raised |-> "none",
             value |-> data[1]["enterprise_customer"]["entitlements"],
             cache |-> got.cache]

\* get_entitlements_for_learner, lines 79-108
get_entitlements_for_learner(cached, failure, answer) ==
    LET got == get_enterprise_learner_data(cached, failure, answer)
        data == got.value["results"]
    IN IF got.raised \in {"ConnectionError", "SlumberBaseException", "Timeout",
                          "KeyError"}
       THEN [raised |-> "none", value |-> <<>>, cache |-> got.cache]
       ELSE IF got.raised # "none"
       THEN [raised |-> got.raised, value |-> <<>>, cache |-> got.cache]
       ELSE IF "results" \notin DOMAIN got.value
       THEN [raised |-> "none", value |-> <<>>, cache |-> got.cache]
       ELSE IF Len(data) = 0
       THEN [raised |-> "none", value |-> <<>>, cache |-> got.cache]
       ELSE IF "enterprise_customer" \notin DOMAIN data[1]
       THEN [raised |-> "none", value |-> <<>>, cache |-> got.cache]
       ELSE IF "entitlements" \notin DOMAIN data[1]["enterprise_customer"]
       THEN [raised |-> "none", value |-> <<>>, cache |-> got.cache]
       ELSE [raised |-> "none",
             value |-> data[1]["enterprise_customer"]["entitlements"],
             cache |-> got.cache]

\* retrieve_voucher(coupon_product): the voucher of a coupon product
retrieve_voucher(coupon_product) == [coupon |-> coupon_product]

get_vouchers_for_learner_skips_missing(cached, failure, answer) ==
    LET got == get_entitlements_for_learner(cached, failure, answer)
        found == SelectSeq(got.value,
                           LAMBDA e : e["entitlement_id"] \in CouponProducts)
    IN [raised |-> got.raised, cache |-> got.cache,
        value |-> [i \in 1..Len(found) |->
                      retrieve_voucher(found[i]["entitlement_id"])]]

\* get_vouchers_for_learner, lines 51-76: one voucher per entitlement, or
\* nothing when a coupon product does not exist
get_vouchers_for_learner(cached, failure, answer) ==
    LET got == get_entitlements_for_learner(cached, failure, answer)
        entitlements == got.value
    IN IF got.raised # "none"
       THEN [raised |-> got.raised, value |-> <<>>, cache |-> got.cache]
       ELSE IF \E i \in 1..Len(entitlements) :
                  entitlements[i]["entitlement_id"] \notin CouponProducts
       THEN [raised |-> "none", value |-> <<>>, cache |-> got.cache]
       ELSE [raised |-> "none", cache |-> got.cache,
             value |-> [i \in 1..Len(entitlements) |->
                           retrieve_voucher(entitlements[i]["entitlement_id"])]]

NoLookup ==
    [fn |-> "none", shape |-> "none", failure |-> "none", cached |-> FALSE,
     entitlements |-> <<>>, raised |-> "none", result |-> <<>>]

EnterpriseIdle == [calls |-> 0, cache |-> <<>>, last |-> NoLookup]

\* What the Enterprise Service does when it is called: it fails, or it
\* answers; only the answers with a customer carry entitlements
ServiceOutcomes ==
    {o \in [failure : ServiceFailures \cup {"none"}, shape : LearnerShapes,
            entitlements : EntitlementLists] :
        /\ o.failure # "none" => o.shape = "empty"
        /\ o.shape \notin {"one", "two"} => o.entitlements = <<>>}

\* the enterprise-learner answer in the cache is used (line 188)
CacheHit == Len(ent.cache) = 1 /\ DOMAIN ent.cache[1] # {}

\* the record of a lookup: what the service did, if it was called
Lookup(fn, outcome) ==
    IF CacheHit THEN [NoLookup EXCEPT !.fn = fn, !.cached = TRUE]
    ELSE [NoLookup EXCEPT !.fn = fn, !.shape = outcome.shape,
                          !.failure = outcome.failure,
                          !.entitlements = outcome.entitlements]

\* get_entitlements_for_learner(site, learner) is called; the Enterprise
\* Service, if it is reached, fails or answers
CallGetEntitlementsForLearner(outcome) ==
    /\ ent.calls < MaxLookups
    /\ LET got == get_entitlements_for_learner(
                      ent.cache, outcome.failure,
                      LearnerResponse(outcome.shape, outcome.entitlements))
       IN ent' = [calls |-> ent.calls + 1, cache |-> got.cache,
                  last |-> [Lookup("get_entitlements_for_learner", outcome)
                              EXCEPT !.raised = got.raised, !.result = got.value]]
    /\ UNCHANGED <<proc, checkoutVars, sdn, credit, sel, cache, rng, trunc, learners, offer, summary, sail>>

\* get_vouchers_for_learner(site, learner) is called
CallGetVouchersForLearner(outcome) ==
    /\ ent.calls < MaxLookups
    /\ LET got == get_vouchers_for_learner(
                      ent.cache, outcome.failure,
                      LearnerResponse(outcome.shape, outcome.entitlements))
       IN ent' = [calls |-> ent.calls + 1, cache |-> got.cache,
                  last |-> [Lookup("get_vouchers_for_learner", outcome)
                              EXCEPT !.raised = got.raised, !.result = got.value]]
    /\ UNCHANGED <<proc, checkoutVars, sdn, credit, sel, cache, rng, trunc, learners, offer, summary, sail>>

----------------------------------------------------------------------------
(* Voucher selection: get_available_voucher_for_product,                    *)
(* get_course_ids_from_voucher and get_entitlement_voucher                  *)

\* the course of the product a voucher is looked for, and another course
ProductCourse == "course-v1:a"

OtherCourse == "course-v1:b"

\* How the range of a voucher's offer names its courses (lines 229-242): by
\* the id of a course catalog, by a catalog query, or by a static catalog
RangeKinds == {"course_catalog", "catalog_query", "catalog"}

\* What holds of the voucher of a coupon: the validity check refuses it; it
\* is valid and its range resolves to another course only; it is valid and
\* its range resolves to the product's course too; it is valid and the
\* catalog API fails while its range is resolved
VoucherCases == {"invalid", "other", "covers", "down"}

\* The vouchers and the catalog as one call sees them; the catalog API can
\* only fail for a range that is resolved through it
VoucherWorlds ==
    {w \in [range : RangeKinds, cases : [CouponProducts -> VoucherCases],
            failure : ServiceFailures \cup {"none"}] :
        /\ w.failure = "none" <=> \A c \in CouponProducts : w.cases[c] # "down"
        /\ w.range = "catalog" => w.failure = "none"}

\* voucher lists: the vouchers of coupon products, in any order
VoucherLists ==
    UNION {[1..n -> [coupon : CouponProducts]] : n \in 0..MaxEntitlements}

\* voucher_is_valid(voucher, [product], request): the verdict
voucher_is_valid(voucher, world) == world.cases[voucher.coupon] # "invalid"

\* the course runs a catalog query gives for the range of a voucher, or the
\* exception of the catalog API: get_course_catalogs and
\* get_catalog_course_runs do not catch it
get_catalog_course_runs(voucher, world) ==
    IF world.cases[voucher.coupon] = "down"
    THEN [raised |-> world.failure, value |-> <<>>]
    ELSE IF world.cases[voucher.coupon] = "covers"
    THEN [raised |-> "none",
          value |-> <<[key |-> OtherCourse], [key |-> ""], [key |-> ProductCourse]>>]
    ELSE [raised |-> "none", value |-> <<[key |-> OtherCourse], [key |-> ""]>>]

\* get_course_ids_from_voucher, lines 218-244: the course keys of the runs
\* of a dynamic range, the courses of the seats of a static one
get_course_ids_from_voucher(voucher, world) ==
    IF world.range \in {"course_catalog", "catalog_query"}
    THEN LET course_runs == get_catalog_course_runs(voucher, world)
             keyed == SelectSeq(course_runs.value, LAMBDA run : run.key # "")
         IN [raised |-> course_runs.raised,
             value |-> {keyed[i].key : i \in 1..Len(keyed)}]
    ELSE [raised |-> "none",
          value |-> IF world.cases[voucher.coupon] = "covers"
                    THEN {OtherCourse, ProductCourse} ELSE {OtherCourse}]

RECURSIVE get_available_voucher_for_product_valid_only(_, _, _)
get_available_voucher_for_product_valid_only(product, vouchers, world) ==
    IF vouchers = <<>> THEN [raised |-> "none", value |-> <<>>]
    ELSE IF voucher_is_valid(Head(vouchers), world)
    THEN [raised |-> "none", value |-> <<Head(vouchers)>>]
    ELSE get_available_voucher_for_product_valid_only(product, Tail(vouchers), world)

RECURSIVE get_available_voucher_for_product(_, _, _)
\* get_available_voucher_for_product, lines 198-215: the first voucher that
\* is valid and covers the course of the product, as a list of one, or
\* nothing; an exception of get_course_ids_from_voucher is not caught
get_available_voucher_for_product(product, vouchers, world) ==
    IF vouchers = <<>> THEN [raised |-> "none", value |-> <<>>]
    ELSE LET voucher == Head(vouchers)
             voucher_course_ids == get_course_ids_from_voucher(voucher, world)
         IN IF ~ voucher_is_valid(voucher, world)
            THEN get_available_voucher_for_product(product, Tail(vouchers), world)
            ELSE IF voucher_course_ids.raised # "none"
            THEN [raised |-> voucher_course_ids.raised, value |-> <<>>]
            ELSE IF product \in voucher_course_ids.value
            THEN [raised |-> "none", value |-> <<voucher>>]
            ELSE get_available_voucher_for_product(product, Tail(vouchers), world)

NoSelection ==
    [fn |-> "none", vouchers |-> <<>>, range |-> "none",
     cases |-> [c \in CouponProducts |-> "invalid"], failure |-> "none",
     enabled |-> FALSE, service |-> "none",
     raised |-> "none", result |-> <<>>]

SelectionIdle == NoSelection

\* get_available_voucher_for_product(request, product, vouchers) is called
CallGetAvailableVoucherForProduct(vouchers, world) ==
    /\ sel.fn = "none"
    /\ LET got == get_available_voucher_for_product(ProductCourse, vouchers, world)
       IN sel' = [NoSelection EXCEPT
                    !.fn = "get_available_voucher_for_product",
                    !.vouchers = vouchers, !.range = world.range,
                    !.cases = world.cases, !.failure = world.failure,
                    !.raised = got.raised, !.result = got.value]
    /\ UNCHANGED <<proc, checkoutVars, sdn, credit, ent, cache, rng, trunc, learners, offer, summary, sail>>

\* is_enterprise_feature_enabled(), enterprise/utils.py lines 10-29: the
\* waffle switch
is_enterprise_feature_enabled(switch) == switch

\* get_entitlement_voucher, lines 31-48
get_entitlement_voucher(switch, cached, failure, answer, product, world) ==
    IF ~ is_enterprise_feature_enabled(switch)
    THEN [raised |-> "none", value |-> <<>>, cache |-> cached, vouchers |-> <<>>]
    ELSE LET vouchers == get_vouchers_for_learner(cached, failure, answer)
             entitlement_voucher ==
                 get_available_voucher_for_product(product, vouchers.value, world)
         IN IF vouchers.raised # "none"
            THEN [raised |-> vouchers.raised, value |-> <<>>,
                  cache |-> vouchers.cache, vouchers |-> <<>>]
            ELSE [raised |-> entitlement_voucher.raised,
                  value |-> entitlement_voucher.value,
                  cache |-> vouchers.cache, vouchers |-> vouchers.value]

\* the world in which no voucher is valid
NoVouchers ==
    [range |-> "catalog", cases |-> [c \in CouponProducts |-> "invalid"],
     failure |-> "none"]

\* the Enterprise Service answering that the learner has no affiliation
Unaffiliated == [failure |-> "none", shape |-> "unaffiliated", entitlements |-> <<>>]

\* get_entitlement_voucher(request, product) is called; with the feature
\* switched off no service is reached
CallGetEntitlementVoucher(switch, outcome, world) ==
    /\ sel.fn = "none"
    /\ ~ switch => (outcome = Unaffiliated /\ world = NoVouchers)
    /\ LET got == get_entitlement_voucher(
                      switch, ent.cache, outcome.failure,
                      LearnerResponse(outcome.shape, outcome.entitlements),
                      ProductCourse, world)
       IN /\ sel' = [NoSelection EXCEPT
                       !.fn = "get_entitlement_voucher",
                       !.enabled = switch, !.service = outcome.failure,
                       !.vouchers = got.vouchers, !.range = world.range,
                       !.cases = world.cases, !.failure = world.failure,
                       !.raised = got.raised, !.result = got.value]
          /\ ent' = [ent EXCEPT !.cache = got.cache]
    /\ UNCHANGED <<proc, checkoutVars, sdn, credit, cache, rng, trunc, learners, offer, summary, sail>>

----------------------------------------------------------------------------
(* Offer ranges: the validation that runs when a Range is created, as the   *)
(* tests of extensions/offer/tests/test_models.py (lines 25-38, 145-195)    *)
(* fix it                                                                   *)

\* the seat types a dynamic range may name
ALLOWED_SEAT_TYPES == {"credit", "professional", "verified"}

\* the entries between the commas of a course_seat_types string
SeatTokens == ALLOWED_SEAT_TYPES \cup {"not_allowed_value", ""}

\* a course_seat_types argument: absent (None), the number 5, the list
\* ['verified'], or a string, held as the list of entries that split(',')
\* returns for it; the empty string splits into one empty entry
NoSeatTypes == [type |-> "None", tokens |-> <<>>]

SeatTypeValues ==
    {NoSeatTypes, [type |-> "int", tokens |-> <<"5">>],
     [type |-> "list", tokens |-> <<"verified">>]}
    \cup {[type |-> "str", tokens |-> t] :
             t \in TextsUpTo(SeatTokens, MaxTokens) \ {<<>>}}

\* a catalog_query argument: absent (None), empty, or a query
CatalogQueries == {"None", "", "*:*", "id:testquery"}

\* a catalog argument: absent (None) or the catalog of the fixture
Catalogs == {"None", "catalog"}

\* python truth of a catalog, of a catalog_query and of a course_seat_types
\* value: None and the empty string are false
IsSet(value) == value \notin {"None", ""}

HasSeatTypes(course_seat_types) ==
    CASE course_seat_types.type = "None" -> FALSE
      [] course_seat_types.type = "str" -> course_seat_types.tokens # <<"">>
      [] OTHER -> TRUE

\* every entry of a string value is an allowed seat type
AllAllowed(course_seat_types) ==
    /\ course_seat_types.type = "str"
    /\ \A i \in DOMAIN course_seat_types.tokens :
          course_seat_types.tokens[i] \in ALLOWED_SEAT_TYPES

\* credit is not combined with another entry
CreditAlone(course_seat_types) ==
    (\E i \in DOMAIN course_seat_types.tokens :
        course_seat_types.tokens[i] = "credit")
    => Len(course_seat_types.tokens) = 1

\* the seat type check without the rule on credit
validate_credit_seat_type_whitelist(course_seat_types) ==
    IF AllAllowed(course_seat_types) THEN "none" ELSE "ValidationError"

\* the seat type check of a dynamic range: 5 is refused (not a string),
\* 'credit,verified' and 'verified,not_allowed_value' are refused, 'credit',
\* 'professional', 'verified' and 'professional,verified' are accepted
validate_credit_seat_type(course_seat_types) ==
    IF /\ AllAllowed(course_seat_types)
       /\ CreditAlone(course_seat_types)
    THEN "none"
    ELSE "ValidationError"

\* the validation with one mechanism required and any single one accepted
clean_one_mechanism(catalog, catalog_query, course_seat_types) ==
    IF IsSet(catalog)
    THEN IF IsSet(catalog_query) \/ HasSeatTypes(course_seat_types)
         THEN "ValidationError" ELSE "none"
    ELSE IF HasSeatTypes(course_seat_types)
         THEN validate_credit_seat_type(course_seat_types)
         ELSE IF IsSet(catalog_query) THEN "none" ELSE "ValidationError"

\* the validation of a Range: a catalog with a dynamic field is refused
\* (lines 155-164); a catalog_query without course_seat_types and
\* course_seat_types without a catalog_query are refused (lines 145-153);
\* with both, the seat types are checked (lines 166-195); a Range with
\* neither is accepted, as the fixture's RangeFactory() shows (lines 28-29)
clean(catalog, catalog_query, course_seat_types) ==
    IF IsSet(catalog)
       /\ (IsSet(catalog_query) \/ HasSeatTypes(course_seat_types))
    THEN "ValidationError"
    ELSE IF IsSet(catalog_query) # HasSeatTypes(course_seat_types)
    THEN "ValidationError"
    ELSE IF IsSet(catalog_query) /\ HasSeatTypes(course_seat_types)
    THEN validate_credit_seat_type(course_seat_types)
    ELSE "none"

\* Range.objects.create(**data): the range is stored with the values given
\* unless the validation raises
create(catalog, catalog_query, course_seat_types) ==
    LET raised == clean(catalog, catalog_query, course_seat_types)
    IN [raised |-> raised,
        created |-> IF raised = "none"
                    THEN <<[catalog |-> catalog,
                            catalog_query |-> catalog_query,
                            course_seat_types |-> course_seat_types]>>
                    ELSE <<>>]

\* no Range was created yet
RangeIdle ==
    [fn |-> "none", catalog |-> "None", catalog_query |-> "None",
     course_seat_types |-> NoSeatTypes, raised |-> "none", created |-> <<>>]

CallRangeCreate(catalog, catalog_query, course_seat_types) ==
    /\ LET got == create(catalog, catalog_query, course_seat_types)
       IN rng' = [fn |-> "create", catalog |-> catalog,
                  catalog_query |-> catalog_query,
                  course_seat_types |-> course_seat_types,
                  raised |-> got.raised, created |-> got.created]
    /\ UNCHANGED <<proc, checkoutVars, sdn, credit, ent, sel, cache, trunc, learners, offer, summary, sail>>

----------------------------------------------------------------------------
(* The catalog query caches: get_range_catalog_query_results and            *)
(* get_all_range_catalog_query_results of coupons/utils.py                  *)

\* the arguments of the calls
CatalogSites == {[domain |-> "example.com", partner_code |-> "edx"]}
QueryTexts == {"q1", "q2"}
Limits == {"10"}
Offsets == {"None", "10"}

\* the course runs the catalog API lists for a query, in pages of one
CourseRunListings == {<<>>, <<"c1", "c2">>}

\* the dict the course_runs endpoint answers: the first page of a listing and
\* the pages that follow it
ApiPage(listing) ==
    [kind |-> "dict",
     results |-> IF listing = <<>> THEN <<>> ELSE <<Head(listing)>>,
     next |-> IF listing = <<>> THEN <<>> ELSE Tail(listing)]

\* traverse_pagination(response, endpoint): the results of the first page
\* and of every page reached through the next links, as one list
traverse_pagination(response) ==
    [kind |-> "list", results |-> response.results \o response.next,
     next |-> <<>>]

\* the cache keys; hashlib.md5 is taken to be injective on them
RangeQueryKey(query, limit, offset, partner_code) ==
    <<"course_runs_", query, limit, offset, partner_code>>

AllRangeQueryKey(domain, resource, partner_code, query) ==
    <<domain, resource, partner_code, query, ".course_runs.api.data">>

CacheKeys ==
    {RangeQueryKey(q, l, o, s.partner_code) :
        q \in QueryTexts, l \in Limits, o \in Offsets, s \in CatalogSites}
    \cup {AllRangeQueryKey(s.domain, "course_runs", s.partner_code, q) :
             s \in CatalogSites, q \in QueryTexts}

\* cache.get(key): the stored value in a list of one, the empty list for None
cache_get(store, key) == store[key]

\* cache.set(key, value, timeout)
cache_set(store, key, value) == [store EXCEPT ![key] = <<value>>]

\* python's "not response": None, an empty list and an empty dict are false;
\* the dict of an API page always has its keys
Not(response) ==
    \/ response = <<>>
    \/ response[1].kind = "list" /\ response[1].results = <<>>

\* lines 14-39; answer is what the API would answer if it were called
get_range_catalog_query_results(store, limit, query, site, offset, answer) ==
    LET cache_key == RangeQueryKey(query, limit, offset, site.partner_code)
        response == cache_get(store, cache_key)
    IN IF Not(response)
       THEN [response |-> answer, api_called |-> TRUE,
             store |-> cache_set(store, cache_key, answer)]
       ELSE [response |-> response[1], api_called |-> FALSE,
             store |-> store]

\* lines 42-72
get_all_range_catalog_query_results(store, site, query, answer) ==
    LET resource == "course_runs"
        cache_key == AllRangeQueryKey(site.domain, resource,
                                      site.partner_code, query)
        response == cache_get(store, cache_key)
    IN IF Not(response)
       THEN LET traversed == traverse_pagination(answer)
            IN [response |-> traversed, api_called |-> TRUE,
                store |-> cache_set(store, cache_key, traversed)]
       ELSE [response |-> response[1], api_called |-> FALSE,
             store |-> store]

\* the empty cache, no call made
CacheIdle ==
    [store |-> [k \in CacheKeys |-> <<>>],
     last |-> [fn |-> "none", key |-> <<>>, stored |-> <<>>,
               api_called |-> FALSE, returned |-> <<>>]]

\* a call and what it found: the value stored under its key when it was
\* made, whether it called the API, and what it returned
Called(fn, key, got) ==
    cache' = [store |-> got.store,
              last |-> [fn |-> fn, key |-> key, stored |-> cache.store[key],
                        api_called |-> got.api_called,
                        returned |-> <<got.response>>]]

CallGetRangeCatalogQueryResults(limit, query, site, offset, listing) ==
    /\ Called("get_range_catalog_query_results",
              RangeQueryKey(query, limit, offset, site.partner_code),
              get_range_catalog_query_results(cache.store, limit, query, site,
                                              offset, ApiPage(listing)))
    /\ UNCHANGED <<proc, checkoutVars, sdn, credit, ent, sel, rng, trunc, learners, offer, summary, sail>>

CallGetAllRangeCatalogQueryResults(site, query, listing) ==
    /\ Called("get_all_range_catalog_query_results",
              AllRangeQueryKey(site.domain, "course_runs", site.partner_code,
                               query),
              get_all_range_catalog_query_results(cache.store, site, query,
                                                  ApiPage(listing)))
    /\ UNCHANGED <<proc, checkoutVars, sdn, credit, ent, sel, rng, trunc, learners, offer, summary, sail>>

\* settings.COURSES_API_CACHE_TIMEOUT has passed since the value under key
\* was stored: the cache drops it
Expire(key) ==
    /\ cache.store[key] # <<>>
    /\ cache' = [cache EXCEPT !.store[key] = <<>>]
    /\ UNCHANGED <<proc, checkoutVars, sdn, credit, ent, sel, rng, trunc, learners, offer, summary, sail>>

----------------------------------------------------------------------------
(* middle_truncate of extensions/payment/utils.py, lines 17-52 *)

\* the characters of the strings truncated
TruncateAlphabet == {"x", "y"}

TruncateStrings == TextsUpTo(TruncateAlphabet, MaxStringLen)

\* the character limits passed
TruncateLimits == -1 .. MaxStringLen + 1

\* the truncation indicator, '...'
indicator == <<".", ".", ".">>

\* string[:n] for n >= 0
SliceTo(string, n) ==
    SubSeq(string, 1, IF n < Len(string) THEN n ELSE Len(string))

\* string[-n:] for n >= 0; string[-0:] is string[0:], the whole string
SliceLast(string, n) ==
    IF n = 0 \/ n >= Len(string)
    THEN string
    ELSE SubSeq(string, Len(string) - n + 1, Len(string))

\* the integer division of python 2, which rounds down
FloorDiv2(n) == n \div 2

\* middle_truncate(string, chars)
middle_truncate(string, chars) ==
    IF Len(string) <= chars
    THEN [raised |-> "none", value |-> string]
    ELSE LET indicator_length == Len(indicator)
         IN IF chars < indicator_length
            THEN [raised |-> "ValueError", value |-> <<>>]
            ELSE LET slice_size == FloorDiv2(chars - indicator_length)
                     start == SliceTo(string, slice_size)
                     end == SliceLast(string, slice_size)
                 IN [raised |-> "none", value |-> start \o indicator \o end]

\* no call made yet
TruncateIdle ==
    [fn |-> "none", string |-> <<>>, chars |-> 0, raised |-> "none",
     value |-> <<>>]

CallMiddleTruncate(string, chars) ==
    /\ LET got == middle_truncate(string, chars)
       IN trunc' = [fn |-> "middle_truncate", string |-> string,
                    chars |-> chars, raised |-> got.raised,
                    value |-> got.value]
    /\ UNCHANGED <<proc, checkoutVars, sdn, credit, ent, sel, cache, rng, learners, offer, summary, sail>>

----------------------------------------------------------------------------
(* The enterprise learner cache across learners: get_enterprise_learner_data *)
(* lines 182-195, called for several learners and sites                      *)

\* the sites and the learners that ask
LearnerSites ==
    {[domain |-> "a.example.com", partner_code |-> "edx"],
     [domain |-> "b.example.com", partner_code |-> "mitx"]}

Usernames == {"alice", "bob"}

\* the cache key, line 184; hashlib.md5 is taken to be injective
EnterpriseLearnerKey(domain, partner_code, resource) ==
    <<domain, partner_code, resource, ".api.data">>

LearnerKeys ==
    {EnterpriseLearnerKey(s.domain, s.partner_code, "enterprise-learner") :
        s \in LearnerSites}

\* what the Enterprise Service answers to endpoint().get(username=...): the
\* learner's enterprise customer with the learner's entitlement, or no
\* affiliation
UserShapes == {"one", "unaffiliated"}

UserEntitlements(username) ==
    IF username = "alice" THEN <<[entitlement_id |-> 1]>>
    ELSE <<[entitlement_id |-> 2]>>

ServiceAnswer(username, shape) ==
    LearnerResponse(shape, IF shape = "one" THEN UserEntitlements(username)
                           ELSE <<>>)

\* the empty cache; owner remembers for whose username the stored answer
\* was fetched
LearnersIdle ==
    [store |-> [k \in LearnerKeys |-> <<>>],
     owner |-> [k \in LearnerKeys |-> "nobody"],
     last |-> [fn |-> "none", domain |-> "none", learner |-> "nobody",
               called |-> FALSE, owner |-> "nobody", value |-> <<>>]]

\* get_enterprise_learner_data(site, learner) is called
CallGetEnterpriseLearnerData(site, learner, shape) ==
    /\ LET resource == "enterprise-learner"
           cache_key == EnterpriseLearnerKey(site.domain, site.partner_code,
                                             resource)
           got == get_enterprise_learner_data(learners.store[cache_key],
                                              "none",
                                              ServiceAnswer(learner, shape))
           owner == IF got.called THEN learner ELSE learners.owner[cache_key]
       IN learners' =
              [store |-> [learners.store EXCEPT ![cache_key] = got.cache],
               owner |-> [learners.owner EXCEPT ![cache_key] = owner],
               last |-> [fn |-> "get_enterprise_learner_data",
                         domain |-> site.domain, learner |-> learner,
                         called |-> got.called, owner |-> owner,
                         value |-> <<got.value>>]]
    /\ UNCHANGED <<proc, checkoutVars, sdn, credit, ent, sel, cache, rng, trunc, offer, summary, sail>>

\* settings.ENTERPRISE_API_CACHE_TIMEOUT has passed since the answer under
\* key was stored
ExpireLearnerData(key) ==
    /\ learners.store[key] # <<>>
    /\ learners' = [learners EXCEPT !.store[key] = <<>>,
                                    !.owner[key] = "nobody"]
    /\ UNCHANGED <<proc, checkoutVars, sdn, credit, ent, sel, cache, rng, trunc, offer, summary, sail>>

----------------------------------------------------------------------------
(* Conditional offers: the email domain restriction, as the tests of        *)
(* extensions/offer/tests/test_models.py (lines 196-259) fix it             *)

\* the labels of the domains of the model; testsub is sub with a prefix
DomainLabels ==
    {<<"example">>, <<"example2">>, <<"sub">>, <<"test", "sub">>, <<"com">>}

\* the domains an email address may have
EmailDomains ==
    {Join(<<".">>, labels) :
        labels \in UNION {[1..n -> DomainLabels] : n \in 1..MaxLabels}}

Emails == {<<"test", "@">> \o domain : domain \in EmailDomains}

\* the email_domains of an offer: none, one domain, the two of the fixture
OfferDomains ==
    {<<>>,
     <<"example", ".", "com">>,
     <<"example", ".", "com", ",", "sub", ".", "example2", ".", "com">>}

\* text ends with suffix, symbol by symbol
EndsWith(text, suffix) ==
    /\ Len(suffix) <= Len(text)
    /\ SubSeq(text, Len(text) - Len(suffix) + 1, Len(text)) = suffix

\* the part of an address after the last @
EmailDomain(email) ==
    LET parts == Split(email, "@") IN parts[Len(parts)]

\* the check that accepts every domain that ends with an allowed domain
is_email_valid_endswith(email_domains, email) ==
    \/ email_domains = <<>>
    \/ LET allowed == Split(email_domains, ",")
       IN \E i \in 1..Len(allowed) : EndsWith(EmailDomain(email), allowed[i])

\* ConditionalOffer.is_email_valid(email): true without email_domains; else
\* the domain of the address, or what is left of it after leading labels
\* are stripped, is one of the allowed domains
is_email_valid(email_domains, email) ==
    \/ email_domains = <<>>
    \/ LET allowed == Split(email_domains, ",")
           labels == Split(EmailDomain(email), ".")
       IN \E k \in 1..Len(labels), i \in 1..Len(allowed) :
             allowed[i] = Join(<<".">>, SubSeq(labels, k, Len(labels)))

\* ConditionalOffer.is_condition_satisfied(basket): false for an owner whose
\* email is not valid, else what the offer's condition says of the basket
is_condition_satisfied(email_domains, email, condition) ==
    IF ~ is_email_valid(email_domains, email) THEN FALSE ELSE condition

\* no check made yet
OfferIdle ==
    [fn |-> "none", email_domains |-> <<>>, email |-> <<>>,
     condition |-> FALSE, valid |-> FALSE, satisfied |-> FALSE]

\* offer.is_email_valid(basket.owner.email) and
\* offer.is_condition_satisfied(basket) for a basket that does or does not
\* meet the offer's condition
CallIsConditionSatisfied(email_domains, email, condition) ==
    /\ offer.fn = "none"
    /\ offer' = [fn |-> "is_condition_satisfied",
                 email_domains |-> email_domains, email |-> email,
                 condition |-> condition,
                 valid |-> is_email_valid(email_domains, email),
                 satisfied |-> is_condition_satisfied(email_domains, email,
                                                      condition)]
    /\ UNCHANGED <<proc, checkoutVars, sdn, credit, ent, sel, cache, rng, trunc, learners, summary, sail>>

----------------------------------------------------------------------------
(* The basket summary view: the switch between a seat and its enrollment    *)
(* code on POST, as the tests of extensions/basket/tests/test_views.py      *)
(* (lines 549-623) fix it                                                   *)

\* the two products of a course that are paired
SwitchProducts == {"seat", "enrollment_code"}

\* the quantities of a line and of a POST
Quantities == 1 .. MaxQuantity

\* the POST field enrollment-code-selected, and its absence
SelectedValues == {"yes", "no", "None"}

\* the switch that looks at the quantity only
switch_product_by_quantity(quantity, add_enrollment_code, enrollment_code_selected) ==
    IF quantity = 1 THEN "seat" ELSE "enrollment_code"

\* the product the line is to hold: the seat for a quantity of exactly 1
\* without a request to add or to keep an enrollment code, the enrollment
\* code otherwise
switch_product(quantity, add_enrollment_code, enrollment_code_selected) ==
    IF quantity = 1 /\ ~ add_enrollment_code /\ enrollment_code_selected # "yes"
    THEN "seat"
    ELSE "enrollment_code"

\* BasketSummaryView.post for a basket of one line: the line is replaced by
\* one line with the product chosen and the quantity submitted, and the
\* request is redirected to the summary page
basket_summary_post(lines, quantity, add_enrollment_code, enrollment_code_selected) ==
    [lines |-> <<[product |-> switch_product(quantity, add_enrollment_code,
                                             enrollment_code_selected),
                  quantity |-> quantity]>>,
     status |-> 302, target |-> "basket:summary"]

\* no POST made yet
SummaryIdle ==
    [fn |-> "none", before |-> <<>>, quantity |-> 0,
     add_enrollment_code |-> FALSE, enrollment_code_selected |-> "None",
     lines |-> <<>>, status |-> 0, target |-> "none"]

\* a basket is created with one line (create_basket_and_add_product) and
\* the summary view receives the POST
PostBasketSwitch(product, original, quantity, add_enrollment_code, enrollment_code_selected) ==
    /\ summary.fn = "none"
    /\ LET lines == <<[product |-> product, quantity |-> original]>>
           got == basket_summary_post(lines, quantity, add_enrollment_code,
                                      enrollment_code_selected)
       IN summary' = [fn |-> "post", before |-> lines, quantity |-> quantity,
                      add_enrollment_code |-> add_enrollment_code,
                      enrollment_code_selected |-> enrollment_code_selected,
                      lines |-> got.lines, status |-> got.status,
                      target |-> got.target]
    /\ UNCHANGED <<proc, checkoutVars, sdn, credit, ent, sel, cache, rng, trunc, learners, offer, sail>>

----------------------------------------------------------------------------
(* The Sailthru signal handlers: process_basket_addition and                *)
(* process_checkout_complete, as the tests of sailthru/tests/test_signals.py *)
(* fix them                                                                 *)

\* the products of the tests: seats of two modes and a coupon
SailthruProducts ==
    {[class |-> "Seat", mode |-> "verified"], [class |-> "Seat", mode |-> "audit"],
     [class |-> "Coupon", mode |-> "None"]}

\* prices of a seat and totals of an order: free, and the 99 of the tests
SailthruPrices == {0, 99}

\* the sailthru_bid cookie of a request: absent, or a campaign id
CampaignCookies == {"None", "cookie_bid", "other_bid"}

\* nothing dispatched, nothing logged
Skipped(attribute) ==
    [attribute |-> attribute, dispatched |-> <<>>, logged |-> FALSE]

\* update_course_enrollment.delay(email, course_url, added, mode, ...)
Task(added, mode, message_id, unit_cost) ==
    [email |-> "test@edx.org", added |-> added, mode |-> mode,
     message_id |-> message_id, unit_cost |-> unit_cost]

\* the basket addition that informs Sailthru of free seats as well
process_basket_addition_any_price(switch, enable_sailthru, product, price, cookie, basket, attribute) ==
    IF ~ switch \/ ~ enable_sailthru \/ product.class # "Seat"
    THEN Skipped(attribute)
    ELSE [attribute |-> IF cookie # "None" /\ basket THEN cookie ELSE attribute,
          dispatched |-> <<Task(TRUE, product.mode, cookie, price)>>,
          logged |-> FALSE]

\* process_basket_addition(sender, product, user, request, basket): skipped
\* with the switch off (lines 45-53), for a partner without Sailthru (lines
\* 55-71) and for a product that is no seat (lines 73-88); the campaign id
\* of the cookie is saved on the basket (lines 153-206); Sailthru is
\* informed only of a seat with a price (lines 124-151)
process_basket_addition(switch, enable_sailthru, product, price, cookie, basket, attribute) ==
    IF ~ switch \/ ~ enable_sailthru \/ product.class # "Seat"
    THEN Skipped(attribute)
    ELSE [attribute |-> IF cookie # "None" /\ basket THEN cookie ELSE attribute,
          dispatched |-> IF price # 0
                         THEN <<Task(TRUE, product.mode, cookie, price)>>
                         ELSE <<>>,
          logged |-> FALSE]

\* the campaign id of a completed checkout: the cookie of the request when
\* nothing is saved on the basket (lines 90-104), the saved id when there is
\* no cookie (lines 153-206), none without both (lines 106-122); with both,
\* prefer says which of the two is taken
CampaignId(cookie, attribute, prefer) ==
    IF attribute = "None" THEN cookie
    ELSE IF cookie = "None" THEN attribute
    ELSE IF prefer = "cookie" THEN cookie ELSE attribute

\* the checkout completion that never reads the basket attribute
process_checkout_complete_cookie_only(switch, enable_sailthru, product, total, cookie, attribute, prefer) ==
    IF ~ switch \/ ~ enable_sailthru \/ product.class # "Seat"
    THEN Skipped(attribute)
    ELSE [attribute |-> attribute,
          dispatched |-> <<Task(FALSE, product.mode, cookie, total)>>,
          logged |-> FALSE]

\* process_checkout_complete(sender, order, request): skipped as the basket
\* addition is; Sailthru is informed of every seat, free ones included
\* (lines 185-206), with the order's total
process_checkout_complete(switch, enable_sailthru, product, total, cookie, attribute, prefer) ==
    IF ~ switch \/ ~ enable_sailthru \/ product.class # "Seat"
    THEN Skipped(attribute)
    ELSE [attribute |-> attribute,
          dispatched |-> <<Task(FALSE, product.mode,
                                CampaignId(cookie, attribute, prefer), total)>>,
          logged |-> FALSE]

\* a basket without campaign attribute, no signal handled
SailthruIdle ==
    [attribute |-> "None",
     last |-> [fn |-> "none", switch |-> FALSE, enable_sailthru |-> FALSE,
               product |-> [class |-> "Coupon", mode |-> "None"], price |-> 0,
               cookie |-> "None", basket |-> FALSE, stored |-> "None",
               dispatched |-> <<>>, logged |-> FALSE]]

\* the record of a signal handled
Handled_(fn, switch, enable_sailthru, product, price, cookie, basket, got) ==
    sail' = [attribute |-> got.attribute,
             last |-> [fn |-> fn, switch |-> switch,
                       enable_sailthru |-> enable_sailthru,
                       product |-> product, price |-> price, cookie |-> cookie,
                       basket |-> basket, stored |-> sail.attribute,
                       dispatched |-> got.dispatched, logged |-> got.logged]]

\* basket_addition is sent for a product, with the request that caused it
\* and with or without the basket
ProcessBasketAddition(switch, enable_sailthru, product, price, cookie, basket) ==
    /\ Handled_("process_basket_addition", switch, enable_sailthru, product,
                price, cookie, basket,
                process_basket_addition(switch, enable_sailthru, product, price,
                                        cookie, basket, sail.attribute))
    /\ UNCHANGED <<proc, checkoutVars, sdn, credit, ent, sel, cache, rng, trunc, learners, offer, summary>>

\* post_checkout is sent for the order of the basket, with a request
\* (whose cookie may be absent) or without one (cookie "None")
ProcessCheckoutComplete(switch, enable_sailthru, product, total, cookie, prefer) ==
    /\ (cookie = "None" \/ sail.attribute = "None" \/ cookie = sail.attribute)
          => prefer = "cookie"
    /\ Handled_("process_checkout_complete", switch, enable_sailthru, product,
                total, cookie, TRUE,
                process_checkout_complete(switch, enable_sailthru, product,
                                          total, cookie, sail.attribute, prefer))
    /\ UNCHANGED <<proc, checkoutVars, sdn, credit, ent, sel, cache, rng, trunc, learners, offer, summary>>

----------------------------------------------------------------------------
(* Sanctions screening: sdn_check of extensions/payment/utils.py and its    *)
(* call in CybersourceSubmitView.form_valid                                 *)

\* rest_framework.status.HTTP_200_OK
HTTP_200_OK == 200

\* What requests.get can give: a response of the sanctions API, with a status
\* code and a content, or no response at all
ApiResponses ==
    [status_code : {200}, content : {<<"{total:0}">>, <<"{total:1}">>,
                                      <<"{total:2}">>, <<"{}">>}]
    \cup [status_code : {400, 503}, content : {<<"{}">>, <<"{total:1}">>}]
    \cup {[status_code |-> 0, content |-> <<"unreachable">>]}

\* json.loads(content): the members of the JSON object
json_loads(content) ==
    CASE content = <<"{total:0}">> -> [total |-> 0]
      [] content = <<"{total:1}">> -> [total |-> 1]
      [] content = <<"{total:2}">> -> [total |-> 2]
      [] OTHER -> EmptyDict

sdn_check_fails_closed(request, full_name, address, country, response) ==
    IF response.status_code = 0
    THEN [raised |-> "ConnectionError", result |-> FALSE, sent |-> TRUE, rows |-> {}]
    ELSE IF response.status_code # HTTP_200_OK
    THEN [raised |-> "none", result |-> FALSE, sent |-> TRUE, rows |-> {}]
    ELSE IF "total" \notin DOMAIN json_loads(response.content)
    THEN [raised |-> "KeyError", result |-> FALSE, sent |-> TRUE, rows |-> {}]
    ELSE IF json_loads(response.content)["total"] = 0
    THEN [raised |-> "none", result |-> TRUE, sent |-> TRUE, rows |-> {}]
    ELSE [raised |-> "none", result |-> FALSE, sent |-> TRUE,
          rows |-> {[full_name |-> full_name, address |-> address,
                     country |-> country,
                     sdn_check_response |-> response.content,
                     basket |-> request.basket]}]

sdn_check_records_nothing(request, full_name, address, country, response) ==
    IF response.status_code = 0
    THEN [raised |-> "ConnectionError", result |-> FALSE, sent |-> TRUE, rows |-> {}]
    ELSE IF response.status_code # HTTP_200_OK
    THEN [raised |-> "none", result |-> TRUE, sent |-> TRUE, rows |-> {}]
    ELSE IF "total" \notin DOMAIN json_loads(response.content)
    THEN [raised |-> "KeyError", result |-> FALSE, sent |-> TRUE, rows |-> {}]
    ELSE IF json_loads(response.content)["total"] = 0
    THEN [raised |-> "none", result |-> TRUE, sent |-> TRUE, rows |-> {}]
    ELSE [raised |-> "none", result |-> FALSE, sent |-> TRUE, rows |-> {}]

\* sdn_check(request, full_name, address, country), lines 82-103, where
\* requests.get gives `response`: the result, the exception raised instead,
\* and the SDNCheckFailure rows created.  request.basket stands for
\* Basket.get_basket(request.user, request.site).
sdn_check(request, full_name, address, country, response) ==
    IF response.status_code = 0
    THEN [raised |-> "ConnectionError", result |-> FALSE, sent |-> TRUE, rows |-> {}]
    ELSE IF response.status_code # HTTP_200_OK
    THEN [raised |-> "none", result |-> TRUE, sent |-> TRUE, rows |-> {}]
    ELSE IF "total" \notin DOMAIN json_loads(response.content)
    THEN [raised |-> "KeyError", result |-> FALSE, sent |-> TRUE, rows |-> {}]
    ELSE IF json_loads(response.content)["total"] = 0
    THEN [raised |-> "none", result |-> TRUE, sent |-> TRUE, rows |-> {}]
    ELSE [raised |-> "none", result |-> FALSE, sent |-> TRUE,
          rows |-> {[full_name |-> full_name, address |-> address,
                     country |-> country,
                     sdn_check_response |-> response.content,
                     basket |-> request.basket]}]

\* the names, countries and addresses submitted
FirstNames == {<<"Ann">>, <<"Dr.">>}
LastNames == {<<"Evil">>}
Countries == {<<"Evilland">>}
Addresses == {<<"1", "Main">>}

\* the requests that reach the screening: the requester's current basket and
\* the SDN toggle of the site configuration
ScreeningRequests == [basket : 1..2, enable_sdn_check : BOOLEAN]

NoCall ==
    [caller |-> "none", request |-> [basket |-> 0, enable_sdn_check |-> FALSE],
     full_name |-> <<>>, country |-> <<>>,
     response |-> [status_code |-> 0, content |-> <<>>],
     raised |-> "none", result |-> FALSE, sent |-> FALSE, created |-> {},
     outcome |-> "none"]

SdnIdle == [calls |-> 0, failures |-> {}, last |-> NoCall]

\* the rows a call creates get the next ids of the table
Created(rows, failures) ==
    {[id |-> Cardinality(failures) + 1, row |-> w] : w \in rows}

\* sdn_check is called with a name, an address and a country
CallSdnCheck(request, full_name, address, country, response) ==
    /\ sdn.calls < MaxChecks
    /\ LET got == sdn_check(request, full_name, address, country, response)
           created == Created(got.rows, sdn.failures)
       IN sdn' = [calls |-> sdn.calls + 1,
                  failures |-> sdn.failures \cup created,
                  last |-> [caller |-> "direct", request |-> request,
                            full_name |-> full_name, country |-> country,
                            response |-> response, raised |-> got.raised,
                            result |-> got.result, sent |-> got.sent,
                            created |-> created,
                            outcome |-> IF got.raised # "none" THEN "raises"
                                        ELSE "returns"]]
    /\ UNCHANGED <<proc, checkoutVars, credit, ent, sel, cache, rng, trunc, learners, offer, summary, sail>>

\* form_valid, lines 98-104: the full name is built and sdn_check is called
\* with the request, the full name and the country.  The call passes three
\* arguments; sdn_check of payment/utils.py takes four, so the call raises
\* TypeError before anything is sent (binds = FALSE).  Where the call binds
\* (a sdn_check of the name and the country, as payment/tests/test_utils.py
\* calls it), no address is passed.
SubmitSdnCheck(request, first_name, last_name, country, response, binds) ==
    /\ sdn.calls < MaxChecks
    /\ LET full_name == first_name \o <<" ">> \o last_name
           got == IF binds
                  THEN sdn_check(request, full_name, <<>>, country, response)
                  ELSE [raised |-> "TypeError", result |-> FALSE, sent |-> FALSE,
                        rows |-> {}]
           created == Created(got.rows, sdn.failures)
       IN sdn' = [calls |-> sdn.calls + 1,
                  failures |-> sdn.failures \cup created,
                  last |-> [caller |-> "submit", request |-> request,
                            full_name |-> full_name, country |-> country,
                            response |-> IF binds THEN response ELSE NoCall.response,
                            raised |-> got.raised,
                            result |-> got.result, sent |-> got.sent,
                            created |-> created,
                            outcome |-> IF got.raised # "none" THEN "raises"
                                        ELSE IF ~ got.result THEN "400"
                                        ELSE "proceeds"]]
    /\ UNCHANGED <<proc, checkoutVars, credit, ent, sel, cache, rng, trunc, learners, offer, summary, sail>>

----------------------------------------------------------------------------
(* The checkout views: extensions/payment/views/cybersource.py *)


BasketIds == {1}

Requests == 1..MaxReq

\* Basket.OPEN, FROZEN, MERGED, SUBMITTED
OPEN == "Open"
FROZEN == "Frozen"
MERGED == "Merged"
SUBMITTED == "Submitted"

\* OrderNumberGenerator().order_number(basket): the order number of a basket id
order_number(id) == <<"EDX-" \o ToString(id)>>

\* the basket ids a reference number can name: the baskets and one id that
\* no basket has
ReferencedIds == BasketIds \cup {2}

\* OrderNumberGenerator().basket_id(order_number) is defined for these texts
\* and raises for every other text
IsOrderNumber(text) == \E id \in ReferencedIds : order_number(id) = text

basket_id(text) == CHOOSE id \in ReferencedIds : order_number(id) = text

\* payment.utils.clean_field_value: re.sub(r'[\^:"\']', '', value)
clean_field_value(value) ==
    SelectSeq(value, LAMBDA c : c \notin {"^", ":", "\"", "'"})

\* CybersourceSubmitView.FIELD_MAPPINGS
FIELD_MAPPINGS ==
    [city |-> "bill_to_address_city", country |-> "bill_to_address_country",
     address_line1 |-> "bill_to_address_line1",
     address_line2 |-> "bill_to_address_line2",
     postal_code |-> "bill_to_address_postal_code",
     state |-> "bill_to_address_state", first_name |-> "bill_to_forename",
     last_name |-> "bill_to_surname"]

\* the cleaned data of a valid payment form
FormData ==
    [city |-> <<"Town">>, country |-> <<"US">>, address_line1 |-> <<"1", ":", "Main">>,
     address_line2 |-> <<>>, postal_code |-> <<"02139">>, state |-> <<"MA">>,
     first_name |-> <<"Ann">>, last_name |-> <<"O", "'", "Hara">>]

\* the extra_parameters of form_valid, lines 110-118
SubmitExtraParameters(data, email, session_key) ==
    Update([k \in {"payment_method", "unsigned_field_names", "bill_to_email",
                   "device_fingerprint_id"} |->
               CASE k = "payment_method" -> <<"card">>
                 [] k = "unsigned_field_names" ->
                        Join(<<",">>, [i \in 1..Len(sorted(PCI_FIELDS)) |->
                                           <<sorted(PCI_FIELDS)[i]>>])
                 [] k = "bill_to_email" -> email
                 [] OTHER -> session_key],
           [k \in {FIELD_MAPPINGS[source] : source \in DOMAIN FIELD_MAPPINGS} |->
               clean_field_value(
                   data[CHOOSE source \in DOMAIN FIELD_MAPPINGS :
                            FIELD_MAPPINGS[source] = k])])

\* the basket of a submit request, as the processor reads it
SubmitBasket(id) ==
    [order_number |-> order_number(id), total_incl_tax |-> <<"10.00">>,
     currency |-> <<"USD">>, owner |-> <<"learner">>, site_name |-> <<"site">>,
     lines |-> <<NoBasketLine>>]

\* The notification the gateway posts for a payment attempt made with a
\* signed parameter set of basket `id`: signed by the gateway with the shared
\* secret over the fields it lists
GatewayNotification(id, decision, auth_amount, req_amount) ==
    SignedResponse(decision, auth_amount, req_amount, order_number(id), secret_key)

\* What the gateway reports: the decision, the authorized amount and the
\* amount of the request it was given.  The amount of the request is the
\* amount of the signed parameter set that was paid with: the total of the
\* basket when the set was issued, 10.00, or the total it had when an
\* earlier set was issued, 100.00
GatewayOutcomes ==
    {<<"ACCEPT", <<"10.00">>, <<"10.00">>>>, <<"ACCEPT", <<"9.99">>, <<"10.00">>>>,
     <<"ACCEPT", <<"100.00">>, <<"100.00">>>>,
     <<"CANCEL", <<>>, <<"10.00">>>>, <<"DECLINE", <<>>, <<"10.00">>>>,
     <<"ERROR", <<>>, <<"10.00">>>>, <<"REVIEW", <<>>, <<"10.00">>>>}

\* Where a posted notification comes from: the gateway, for an outcome of a
\* payment attempt ("signed"), or anyone else, who takes a notification of
\* the gateway and replaces its signature by one made without the secret
\* ("unsigned"), its decision by ACCEPT ("decision") or its reference by a
\* text that is no order number ("reference")
Sources ==
    [by : {"gateway"}, id : ReferencedIds, outcome : GatewayOutcomes, how : {"signed"}]
    \cup [by : {"forger"}, id : ReferencedIds, outcome : GatewayOutcomes,
          how : {"unsigned", "decision", "reference"}]

NoSource ==
    [by |-> "none", id |-> 0, outcome |-> <<"", <<>>, <<>>>>, how |-> "none"]

\* request.POST.dict() of a notification from a source
Posted ==
    [s \in Sources |->
        LET signed == GatewayNotification(s.id, s.outcome[1], s.outcome[2],
                                            s.outcome[3])
        IN CASE s.how = "signed" -> signed
             [] s.how = "unsigned" ->
                    SetItem(signed, "signature", sign(<<"forged">>, "other"))
             [] s.how = "decision" -> SetItem(signed, "decision", <<"ACCEPT">>)
             [] OTHER -> SetItem(signed, "req_reference_number", <<"x">>)]
    @@ [s \in {NoSource} |-> EmptyDict]

\* the notifications the gateway may post: one per outcome of a payment
\* attempt made with a parameter set that a submit request returned
GenuineNotifications ==
    {s \in Sources : s.by = "gateway" /\ \E t \in issued : t.basket = s.id}

\* the notifications anyone else may post: an unsigned accept for any
\* reference, a genuine cancel of a basket with issued parameters changed to
\* an accept, and an accept whose reference is no order number
ForgedNotifications ==
    {s \in Sources :
        /\ s.by = "forger"
        /\ \/ s.how = "unsigned"
              /\ s.outcome = <<"ACCEPT", <<"10.00">>, <<"10.00">>>>
           \/ s.how = "decision" /\ s.outcome = <<"CANCEL", <<>>, <<"10.00">>>>
                                 /\ \E t \in issued : t.basket = s.id
           \/ s.how = "reference"
              /\ s.outcome = <<"ACCEPT", <<"10.00">>, <<"10.00">>>>
                                  /\ s.id = 1}

NoRequest ==
    [kind |-> "none", pc |-> "idle", basket |-> 0, seen |-> "none",
     source |-> NoSource, exception |-> "none",
     status |-> 0, target |-> "none", issues |-> FALSE,
     audited |-> 0, txn |-> {}, created |-> FALSE, froze |-> FALSE,
     thawed |-> FALSE, fire_tracking_events |-> FALSE]

\* the request slots are taken in order
CanStart(r) ==
    /\ req[r].kind = "none"
    /\ \A q \in Requests : q < r => req[q].kind # "none"

CheckoutInit ==
    /\ baskets \in [BasketIds -> {OPEN, MERGED}]
    /\ orders = {}
    /\ payments = {}
    /\ audits = {}
    /\ issued = {}
    /\ req = [r \in Requests |-> NoRequest]

----------------------------------------------------------------------------
(* CybersourceSubmitView.form_valid *)

BasketNotOpen_submitted_only(status) == status = SUBMITTED

BasketNotOpen_never(status) == FALSE

\* the status check of form_valid, line 92: basket.status != Basket.OPEN
BasketNotOpen(status) == status # OPEN

\* What can go wrong between the status check and the freeze: the SDN check
\* reports a match; the call to sdn_check raises (line 102 passes three
\* arguments: the four-parameter sdn_check of payment/utils.py always raises
\* on it, the three-parameter one its tests call raises on a transport error);
\* Applicator().apply raises; the processor cannot be constructed;
\* JsonResponse cannot render the parameters
SubmitFailures ==
    {"none", "sdn_match", "sdn_error", "apply", "processor", "response"}

\* get_transaction_parameters as form_valid calls it (lines 110-124) in
\* request r for basket b
SubmitSigned ==
    [r \in Requests, b \in BasketIds |->
        get_transaction_parameters(
            SubmitBasket(b), TRUE,
            SubmitExtraParameters(FormData, <<"learner@example.com">>, <<"session">>),
            <<"uuid" \o ToString(r)>>, <<"2017-01-01T00:00:00Z">>)] @@ EmptyDict

\* the request record after lines 85-131: status check, SDN check, offers,
\* signed parameters, the JSON response
Prepared(request, r, failure) ==
    LET got == SubmitSigned[r, request.basket]
    IN IF BasketNotOpen(request.seen)
       THEN [request EXCEPT !.pc = "done", !.status = 400]
       ELSE IF failure = "sdn_match"
       THEN [request EXCEPT !.pc = "done", !.status = 400, !.exception = "SDN"]
       ELSE IF failure = "sdn_error"
       THEN [request EXCEPT !.pc = "done", !.status = 500, !.exception = "TypeError"]
       ELSE IF failure \in {"apply", "processor"}
       THEN [request EXCEPT !.pc = "done", !.status = 500, !.exception = "Exception"]
       ELSE IF got.raised # "none"
       THEN [request EXCEPT !.pc = "done", !.status = 500, !.exception = got.raised]
       ELSE IF failure = "response"
       THEN [request EXCEPT !.pc = "done", !.status = 500, !.exception = "Exception"]
       ELSE [request EXCEPT !.pc = "freeze", !.issues = TRUE]

SubmitRequest_freezes_first(r, b, failure) ==
    /\ CanStart(r)
    /\ baskets' = IF BasketNotOpen(baskets[b]) THEN baskets
                  ELSE [baskets EXCEPT ![b] = FROZEN]
    /\ req' = [req EXCEPT ![r] =
                  Prepared([@ EXCEPT !.kind = "submit", !.basket = b,
                                     !.seen = baskets[b],
                                     !.froze = ~ BasketNotOpen(baskets[b])],
                           r, failure)]
    /\ UNCHANGED <<proc, sdn, orders, payments, audits, issued, credit, ent, sel, cache, rng, trunc, learners, offer, summary, sail>>

\* form_valid, lines 85-131: the form is bound to basket b, whose status is
\* read; everything up to the construction of the response
SubmitRequest(r, b, failure) ==
    /\ CanStart(r)
    /\ req' = [req EXCEPT ![r] =
                  Prepared([@ EXCEPT !.kind = "submit", !.basket = b,
                                     !.seen = baskets[b]],
                           r, failure)]
    /\ UNCHANGED <<proc, sdn, baskets, orders, payments, audits, issued, credit, ent, sel, cache, rng, trunc, learners, offer, summary, sail>>

\* form_valid, lines 133-136: basket.freeze() and the response; the browser
\* now holds a signed parameter set for the basket
SubmitFreeze(r) ==
    /\ req[r].kind = "submit" /\ req[r].pc = "freeze"
    /\ baskets' = [baskets EXCEPT ![req[r].basket] = FROZEN]
    /\ issued' = issued \cup {[uuid |-> r, basket |-> req[r].basket]}
    /\ req' = [req EXCEPT ![r].pc = "done", ![r].status = 200, ![r].froze = TRUE]
    /\ UNCHANGED <<proc, sdn, orders, payments, audits, credit, ent, sel, cache, rng, trunc, learners, offer, summary, sail>>

----------------------------------------------------------------------------
(* CybersourceNotificationMixin, CybersourceNotifyView, CybersourceInterstitialView *)

\* _get_basket(basket_id): the basket, or None (0) when no basket has the id
_get_basket(id) == IF id \in BasketIds THEN id ELSE 0

\* validate_notification, lines 191-206: the basket the notification names,
\* or the exception raised before the audit row is written
Resolve(notification) ==
    IF "req_reference_number" \notin DOMAIN notification
       \/ ~ IsOrderNumber(notification["req_reference_number"])
    THEN [exception |-> "Exception", basket |-> 0]
    ELSE LET basket == _get_basket(basket_id(notification["req_reference_number"]))
         IN IF basket = 0
            THEN [exception |-> "InvalidBasketError", basket |-> 0]
            ELSE [exception |-> "none", basket |-> basket]

\* the audit row record_processor_response creates for request r
record_processor_response(r, notification, basket) ==
    {[row |-> "response", request |-> r, basket |-> basket,
      transaction |-> IF "transaction_id" \in DOMAIN notification
                      THEN notification["transaction_id"] ELSE <<>>]}

RecordedOnSuccessOnly(exception) == exception = "none"

\* validate_notification, lines 207-211: the audit row is written in the
\* finally clause, whatever the try block raised
RecordedInFinally(exception) == TRUE

InsideAtomic(rows) == [committed |-> {}, pending |-> rows]

\* The view is dispatched with transaction.non_atomic_requests (lines 144-147)
\* and the audit row is written before the atomic block is entered (line 214):
\* the write is committed at once
OutsideAtomic(rows) == [committed |-> rows, pending |-> {}]

NotifyStatus_all_payment_errors(exception) ==
    IF exception = "InvalidBasketError" THEN 400
    ELSE IF IsPaymentError(exception) THEN 200
    ELSE 500

\* CybersourceNotifyView.post, lines 285-290: the status for an exception of
\* validate_notification.  The InvalidSignatureError the view names
\* (extensions/payment/exceptions) is taken to be the class the processor
\* raises.
NotifyStatus(exception) ==
    IF exception \in {"InvalidBasketError", "InvalidSignatureError"} THEN 400
    ELSE IF IsPaymentError(exception) THEN 200
    ELSE 500

\* CybersourceInterstitialView.post, lines 307-319: where an exception of
\* validate_notification redirects to
InterstitialTarget(exception) ==
    IF exception \in {"InvalidBasketError", "InvalidSignatureError"} THEN "payment_error"
    ELSE IF IsPaymentError(exception) THEN "basket_summary"
    ELSE "payment_error"

ProceedsToOrder_unless_invalid(exception) ==
    exception \notin {"InvalidBasketError", "InvalidSignatureError", "Exception"}

\* post, lines 282-293 and 304-322: create_order is called only when
\* validate_notification returned
ProceedsToOrder(exception) == exception = "none"

\* a notification arrives at the notification or the interstitial endpoint;
\* validate_notification, lines 188-211
ValidateNotification(r, kind, source) ==
    /\ CanStart(r)
    /\ LET notification == Posted[source]
           found == Resolve(notification)
           write == IF RecordedInFinally(found.exception)
                    THEN OutsideAtomic(record_processor_response(r, notification,
                                                                 found.basket))
                    ELSE OutsideAtomic({})
           started == [req[r] EXCEPT
                         !.kind = kind, !.source = source,
                         !.basket = found.basket,
                         !.seen = IF found.basket = 0 THEN "none"
                                  ELSE baskets[found.basket],
                         !.audited = Cardinality(write.committed)
                                     + Cardinality(write.pending),
                         !.txn = write.pending,
                         !.exception = found.exception]
       IN /\ audits' = audits \cup write.committed
          /\ req' = [req EXCEPT ![r] =
               IF found.exception = "none" THEN [started EXCEPT !.pc = "atomic"]
               ELSE [started EXCEPT
                       !.pc = "done",
                       !.status = IF kind = "notify"
                                  THEN NotifyStatus(found.exception) ELSE 302,
                       !.target = IF kind = "notify" THEN "none"
                                  ELSE InterstitialTarget(found.exception)]]
    /\ UNCHANGED <<proc, sdn, baskets, orders, payments, issued, credit, ent, sel, cache, rng, trunc, learners, offer, summary, sail>>

\* handle_processor_response of every notification that can be posted
Handled ==
    [s \in Sources |-> handle_processor_response(Posted[s])] @@ EmptyDict

\* EdxOrderPlacementMixin.handle_payment for the notification of a source:
\* the processor validates the response, then the payment source and event
\* are recorded
handle_payment(r, source, basket, fails) ==
    LET handled == Handled[source]
    IN IF handled.raised # "none"
       THEN [exception |-> IF handled.raised = "KeyError" THEN "Exception"
                           ELSE handled.raised,
             writes |-> {}]
       ELSE [exception |-> IF fails THEN "Exception" ELSE "none",
             writes |-> {[row |-> "payment", request |-> r, basket |-> basket,
                          transaction |-> handled.value[1]]}]

\* validate_notification, lines 214-243: handle_payment inside
\* transaction.atomic().  The block commits its writes when handle_payment
\* returned and rolls them back when it raised; the exception reaches post
\* (lines 285-290, 307-319)
HandlePayment(r, fails) ==
    /\ req[r].pc = "atomic"
    /\ LET handled == handle_payment(r, req[r].source, req[r].basket, fails)
           pending == req[r].txn \cup handled.writes
           committed == IF handled.exception = "none" THEN pending ELSE {}
           answered == [req[r] EXCEPT !.exception = handled.exception, !.txn = {}]
       IN /\ payments' = payments \cup {w \in committed : w.row = "payment"}
          /\ audits' = audits \cup {w \in committed : w.row = "response"}
          /\ req' = [req EXCEPT ![r] =
               IF ProceedsToOrder(handled.exception)
               THEN [answered EXCEPT !.pc = "create"]
               ELSE IF req[r].kind = "notify"
               THEN [answered EXCEPT !.pc = "done",
                                     !.status = NotifyStatus(handled.exception)]
               ELSE IF InterstitialTarget(handled.exception) = "basket_summary"
               THEN [answered EXCEPT !.pc = "thaw"]
               ELSE [answered EXCEPT !.pc = "done", !.status = 302,
                                     !.target = "payment_error"]]
    /\ UNCHANGED <<proc, sdn, baskets, orders, issued, credit, ent, sel, cache, rng, trunc, learners, offer, summary, sail>>

\* CybersourceInterstitialView.post, lines 309-317: the basket is looked up
\* again and thawed
InterstitialThaw(r) ==
    /\ req[r].pc = "thaw"
    /\ LET basket == _get_basket(basket_id(
                         Posted[req[r].source]["req_reference_number"]))
       IN /\ baskets' = IF basket # 0 THEN [baskets EXCEPT ![basket] = OPEN]
                        ELSE baskets
          /\ req' = [req EXCEPT ![r].pc = "done", ![r].status = 302,
                                ![r].target = "basket_summary",
                                ![r].thawed = (basket # 0)]
    /\ UNCHANGED <<proc, sdn, orders, payments, audits, issued, credit, ent, sel, cache, rng, trunc, learners, offer, summary, sail>>

\* EdxOrderPlacementMixin.handle_order_placement, called by create_order:
\* the order is placed under the basket's order number with the total it is
\* given and the basket is submitted, both in one transaction; an order
\* number is used once
handle_order_placement(r, basket, order_total, fails) ==
    IF fails \/ \E o \in orders : o.basket = basket
    THEN [exception |-> "Exception", orders |-> {}, status |-> baskets[basket]]
    ELSE [exception |-> "none",
          orders |-> {[basket |-> basket, request |-> r,
                       placed_in |-> baskets[basket], total |-> order_total]},
          status |-> SUBMITTED]

\* the fields _get_billing_address indexes, lines 153-169
BillingFieldsRead ==
    {"req_bill_to_forename", "req_bill_to_surname", "req_bill_to_address_line1",
     "req_bill_to_address_city", "req_bill_to_address_country"}

\* NoShippingRequired().calculate(basket), lines 250-251: no charge
shipping_charge == 0

\* OrderTotalCalculator().calculate(basket, shipping_charge), line 255: the total of
\* the basket as stored, in cents, and the shipping charge
OrderTotalCalculator(basket, charge) ==
    Decimal(SubmitBasket(basket).total_incl_tax) + charge

create_order_gateway_total(r, basket, notification, fails) ==
    IF BillingFieldsRead \ DOMAIN notification # {}
    THEN [exception |-> "Exception", orders |-> {}, status |-> baskets[basket]]
    ELSE handle_order_placement(r, basket, Decimal(notification["req_amount"]),
                                fails)

\* create_order, lines 245-273: the total and the billing address are
\* computed and the order is placed; every exception is logged and re-raised
create_order(r, basket, notification, fails) ==
    IF BillingFieldsRead \ DOMAIN notification # {}
    THEN [exception |-> "Exception", orders |-> {}, status |-> baskets[basket]]
    ELSE handle_order_placement(r, basket,
                                OrderTotalCalculator(basket, shipping_charge),
                                fails)

OrderResponse_flags_first(request, exception, receipt_fails) ==
    IF request.kind = "notify"
    THEN [request EXCEPT !.status = IF exception = "none" THEN 200 ELSE 500]
    ELSE [request EXCEPT
            !.status = 302,
            !.fire_tracking_events = TRUE,
            !.target = IF exception = "none" /\ ~ receipt_fails
                       THEN "receipt" ELSE "payment_error"]

\* post after validate_notification returned, lines 292-296 and 321-330: the
\* response to the outcome of create_order.  The interstitial endpoint
\* computes the receipt URL after create_order returned, sets the session
\* flag and redirects; an exception of any of these redirects to the
\* payment-error page
OrderResponse(request, exception, receipt_fails) ==
    IF request.kind = "notify"
    THEN [request EXCEPT !.status = IF exception = "none" THEN 200 ELSE 500]
    ELSE IF exception = "none" /\ ~ receipt_fails
    THEN [request EXCEPT !.status = 302, !.target = "receipt",
                         !.fire_tracking_events = TRUE]
    ELSE [request EXCEPT !.status = 302, !.target = "payment_error"]

\* What can go wrong after validate_notification returned: the order
\* placement raises ("order"), get_receipt_page_url raises ("receipt")
OrderFailures == {"none", "order", "receipt"}

\* post, lines 292-296 and 321-330: create_order and the response to it
CreateOrder(r, failure) ==
    /\ req[r].pc = "create"
    /\ failure = "receipt" => req[r].kind = "interstitial"
    /\ LET placed == create_order(r, req[r].basket, Posted[req[r].source],
                                  failure = "order")
       IN /\ orders' = orders \cup placed.orders
          /\ baskets' = [baskets EXCEPT ![req[r].basket] = placed.status]
          /\ req' = [req EXCEPT ![r] =
               OrderResponse([@ EXCEPT !.pc = "done", !.created = TRUE,
                                       !.exception = placed.exception],
                             placed.exception, failure = "receipt")]
    /\ UNCHANGED <<proc, sdn, payments, audits, issued, credit, ent, sel, cache, rng, trunc, learners, offer, summary, sail>>

----------------------------------------------------------------------------
(* Specifications *)

Init ==
    /\ proc = ProcIdle
    /\ sail = SailthruIdle
    /\ summary = SummaryIdle
    /\ offer = OfferIdle
    /\ learners = LearnersIdle
    /\ trunc = TruncateIdle
    /\ rng = RangeIdle
    /\ cache = CacheIdle
    /\ sel = SelectionIdle
    /\ ent = EnterpriseIdle
    /\ credit = CreditIdle
    /\ sdn = SdnIdle
    /\ CheckoutInit

Next ==
    \/ \E r \in {q \in Requests : CanStart(q)}, b \in BasketIds,
          failure \in SubmitFailures :
            SubmitRequest(r, b, failure)
    \/ \E r \in Requests : SubmitFreeze(r)
    \/ \E r \in {q \in Requests : CanStart(q)} :
          \E kind \in {"notify", "interstitial"},
             source \in GenuineNotifications \cup ForgedNotifications :
               ValidateNotification(r, kind, source)
    \/ \E r \in Requests, fails \in BOOLEAN : HandlePayment(r, fails)
    \/ \E r \in Requests : InterstitialThaw(r)
    \/ \E r \in Requests, failure \in OrderFailures : CreateOrder(r, failure)

\* the checkout views serving up to MaxReq requests
Spec == Init /\ [][Next]_vars

ProcessorInit ==
    /\ proc = ProcIdle
    /\ sail = SailthruIdle
    /\ summary = SummaryIdle
    /\ offer = OfferIdle
    /\ learners = LearnersIdle
    /\ trunc = TruncateIdle
    /\ rng = RangeIdle
    /\ cache = CacheIdle
    /\ sel = SelectionIdle
    /\ ent = EnterpriseIdle
    /\ credit = CreditIdle
    /\ sdn = SdnIdle
    /\ baskets = [b \in BasketIds |-> OPEN]
    /\ orders = {} /\ payments = {} /\ audits = {} /\ issued = {}
    /\ req = [r \in Requests |-> NoRequest]

ProcessorNext ==
    \/ \E basket \in ProcessorBaskets, level23 \in BOOLEAN,
          extra \in ExtraParameters, uuid \in {<<"u1">>} :
            CallGetTransactionParameters(basket, level23, extra, uuid)
    \/ EchoParameters
    \/ TamperParameters
    \/ VerifySignature
    \/ \E word \in DecisionWords, casing \in Casings,
          auth_amount \in AmountTexts, req_amount \in AmountTexts,
          secret \in {secret_key, "other"} :
            HandleResponse(word, casing, auth_amount, req_amount, secret)
    \/ \E card_type \in CardTypes, secret \in {secret_key, "other"} :
            HandleCardResponse(card_type, secret)
    \/ HandleMissingResponse

\* one use of the processor, from get_transaction_parameters to is_signature_valid
SpecProcessor == ProcessorInit /\ [][ProcessorNext]_vars

SdnNext ==
    \/ \E request \in ScreeningRequests, first_name \in FirstNames,
          last_name \in LastNames, address \in Addresses, country \in Countries,
          response \in ApiResponses :
            CallSdnCheck(request, first_name \o <<" ">> \o last_name, address,
                         country, response)
    \/ \E request \in ScreeningRequests, first_name \in FirstNames,
          last_name \in LastNames, country \in Countries,
          response \in ApiResponses, binds \in BOOLEAN :
            SubmitSdnCheck(request, first_name, last_name, country, response, binds)

\* up to MaxChecks sanctions screenings, by direct calls of sdn_check and by
\* the submit endpoint
SpecSdn == ProcessorInit /\ [][SdnNext]_vars

CreditNext ==
    \E order \in CreditOrders, failure \in CreditFailures,
       response \in CreditReplies :
        CallIssueCredit(order, <<"ref1">>, <<"10.00">>, <<"USD">>, failure,
                        response)

\* up to MaxCredits refunds
SpecCredit == ProcessorInit /\ [][CreditNext]_vars

EnterpriseNext ==
    \/ \E outcome \in ServiceOutcomes : CallGetEntitlementsForLearner(outcome)
    \/ \E outcome \in ServiceOutcomes : CallGetVouchersForLearner(outcome)

\* up to MaxLookups entitlement lookups
SpecEnterprise == ProcessorInit /\ [][EnterpriseNext]_vars

VoucherNext ==
    \/ \E vouchers \in VoucherLists, world \in VoucherWorlds :
            CallGetAvailableVoucherForProduct(vouchers, world)
    \/ \E switch \in BOOLEAN, outcome \in ServiceOutcomes,
          world \in VoucherWorlds :
            CallGetEntitlementVoucher(switch, outcome, world)

\* one voucher selection for a product
SpecVoucher == ProcessorInit /\ [][VoucherNext]_vars

RangeNext ==
    \E catalog \in Catalogs, catalog_query \in CatalogQueries,
       course_seat_types \in SeatTypeValues :
        CallRangeCreate(catalog, catalog_query, course_seat_types)

\* creations of a Range
SpecRange == ProcessorInit /\ [][RangeNext]_vars

CacheNext ==
    \/ \E limit \in Limits, query \in QueryTexts, site \in CatalogSites,
          offset \in Offsets, listing \in CourseRunListings :
            CallGetRangeCatalogQueryResults(limit, query, site, offset, listing)
    \/ \E site \in CatalogSites, query \in QueryTexts,
          listing \in CourseRunListings :
            CallGetAllRangeCatalogQueryResults(site, query, listing)
    \/ \E key \in CacheKeys : Expire(key)

\* calls of the two cached catalog queries, and entries timing out
SpecCache == ProcessorInit /\ [][CacheNext]_vars

TruncateNext ==
    \E string \in TruncateStrings, chars \in TruncateLimits :
        CallMiddleTruncate(string, chars)

\* calls of middle_truncate
SpecTruncate == ProcessorInit /\ [][TruncateNext]_vars

LearnersNext ==
    \/ \E site \in LearnerSites, learner \in Usernames, shape \in UserShapes :
            CallGetEnterpriseLearnerData(site, learner, shape)
    \/ \E key \in LearnerKeys : ExpireLearnerData(key)

\* calls of get_enterprise_learner_data for the learners of two sites
SpecLearners == ProcessorInit /\ [][LearnersNext]_vars

OfferNext ==
    \E email_domains \in OfferDomains, email \in Emails, condition \in BOOLEAN :
        CallIsConditionSatisfied(email_domains, email, condition)

\* one eligibility check of a conditional offer
SpecOffer == ProcessorInit /\ [][OfferNext]_vars

SummaryNext ==
    \E product \in SwitchProducts, original \in Quantities,
       quantity \in Quantities, add_enrollment_code \in BOOLEAN,
       enrollment_code_selected \in SelectedValues :
        PostBasketSwitch(product, original, quantity, add_enrollment_code,
                         enrollment_code_selected)

\* one switch POST to the basket summary view
SpecSummary == ProcessorInit /\ [][SummaryNext]_vars

SailthruNext ==
    \/ \E switch \in BOOLEAN, enable_sailthru \in BOOLEAN,
          product \in SailthruProducts, price \in SailthruPrices,
          cookie \in CampaignCookies, basket \in BOOLEAN :
           ProcessBasketAddition(switch, enable_sailthru, product, price, cookie, basket)
    \/ \E switch \in BOOLEAN, enable_sailthru \in BOOLEAN,
          product \in SailthruProducts, total \in SailthruPrices,
          cookie \in CampaignCookies, prefer \in {"cookie", "stored"} :
           ProcessCheckoutComplete(switch, enable_sailthru, product, total, cookie, prefer)

\* the signals of one basket, sent in any order
SpecSailthru == ProcessorInit /\ [][SailthruNext]_vars

----------------------------------------------------------------------------
(* Claims about the enterprise entitlements, checked under SpecEnterprise *)

\* C25: get_entitlements_for_learner returns the entitlement list nested
\* under the first result's enterprise customer, and returns an empty list,
\* without raising, when the learner has no enterprise affiliation, when the
\* response is malformed, and when the call fails with a connection error, a
\* timeout or an API-client exception.
C25_EntitlementsOrEmpty ==
    ent.last.fn = "get_entitlements_for_learner" =>
        LET last == ent.last
            answer == IF last.cached THEN ent.cache[1]
                      ELSE LearnerResponse(last.shape, last.entitlements)
            nested == /\ "results" \in DOMAIN answer
                      /\ Len(answer["results"]) > 0
                      /\ "enterprise_customer" \in DOMAIN answer["results"][1]
                      /\ "entitlements" \in
                            DOMAIN answer["results"][1]["enterprise_customer"]
        IN /\ last.raised = "none"
           /\ last.failure # "none" => last.result = <<>>
           /\ (last.failure = "none" /\ nested) =>
                 last.result
                   = answer["results"][1]["enterprise_customer"]["entitlements"]
           /\ (last.failure = "none" /\ ~ nested) => last.result = <<>>
           /\ (~ last.cached /\ last.shape \in {"one", "two"}
               /\ last.failure = "none") => last.result = last.entitlements

\* the second lookup of a behaviour reached the service and returned the
\* two entitlements of the first of two enterprise customers
C25_Witness ==
    /\ ent.calls = 2
    /\ ent.last.fn = "get_entitlements_for_learner"
    /\ ent.last.shape = "two" /\ Len(ent.last.result) = 2
    /\ ent.last.result = ent.last.entitlements
    /\ ent.last.result # <<[entitlement_id |-> 2]>>

\* the enterprise-learner answer the last lookup worked with
LastAnswer ==
    IF ent.last.cached THEN ent.cache[1]
    ELSE LearnerResponse(ent.last.shape, ent.last.entitlements)

\* the entitlements the last lookup had to resolve
LastEntitlements ==
    IF /\ ent.last.failure = "none"
       /\ "results" \in DOMAIN LastAnswer
       /\ Len(LastAnswer["results"]) > 0
       /\ "enterprise_customer" \in DOMAIN LastAnswer["results"][1]
       /\ "entitlements" \in DOMAIN LastAnswer["results"][1]["enterprise_customer"]
    THEN LastAnswer["results"][1]["enterprise_customer"]["entitlements"]
    ELSE <<>>

\* C27: get_vouchers_for_learner returns one voucher per entitlement, in
\* entitlement order, when every referenced coupon product exists; if any
\* referenced coupon product cannot be found the whole lookup aborts and
\* returns no vouchers, also discarding the vouchers resolved from earlier
\* entitlements.
C27_AllVouchersOrNone ==
    ent.last.fn = "get_vouchers_for_learner" =>
        LET entitled == LastEntitlements
            exist == \A i \in 1..Len(entitled) :
                        entitled[i]["entitlement_id"] \in {1, 2}
        IN /\ ent.last.raised = "none"
           /\ exist =>
                 /\ Len(ent.last.result) = Len(entitled)
                 /\ \A i \in 1..Len(entitled) :
                       ent.last.result[i].coupon = entitled[i]["entitlement_id"]
           /\ ~ exist => ent.last.result = <<>>

\* the coupon product of the second of two entitlements did not exist and
\* no voucher was returned
C27_Witness ==
    /\ ent.last.fn = "get_vouchers_for_learner"
    /\ ~ ent.last.cached
    /\ ent.last.entitlements = <<[entitlement_id |-> 1], [entitlement_id |-> 9]>>
    /\ ent.last.result = <<>>

----------------------------------------------------------------------------
(* Claims about the voucher selection, checked under SpecVoucher *)

\* the places of the vouchers of a list that are valid and cover the course
Qualifying(vouchers, cases) ==
    {i \in 1..Len(vouchers) : cases[vouchers[i].coupon] = "covers"}

\* the places of the valid vouchers whose range the catalog API fails on
Failing(vouchers, cases) ==
    {i \in 1..Len(vouchers) : cases[vouchers[i].coupon] = "down"}

C24_NoServiceFailurePropagates ==
    sel.fn = "get_entitlement_voucher" =>
        /\ sel.raised = "none"
        /\ sel.service # "none" => sel.result = <<>>

----------------------------------------------------------------------------
(* Claims about offer ranges, checked under SpecRange *)

DynamicRange ==
    /\ rng.fn = "create"
    /\ ~ IsSet(rng.catalog) /\ IsSet(rng.catalog_query)
    /\ rng.course_seat_types # NoSeatTypes

\* C30 as stated: the course_seat_types of a Range validate when they are a
\* string whose comma-separated entries are all of credit, professional and
\* verified; validation fails for any other entry, for a value that is not
\* a string and for the empty string.
C30_SeatTypeWhitelist ==
    DynamicRange =>
        (rng.raised = "none" <=> AllAllowed(rng.course_seat_types))

\* C30, amended: the course_seat_types of a Range validate when they are a
\* string whose comma-separated entries are all of credit, professional and
\* verified and in which credit, if it occurs, is the only entry; validation
\* fails for any other entry, for credit combined with another entry, for a
\* value that is not a string and for the empty string.
C30_SeatTypesCreditAlone ==
    DynamicRange =>
        (rng.raised = "none"
            <=> /\ AllAllowed(rng.course_seat_types)
                /\ CreditAlone(rng.course_seat_types))

\* a dynamic range with the seat types 'credit,verified' was refused
C30_Witness ==
    /\ DynamicRange
    /\ rng.course_seat_types
         = [type |-> "str", tokens |-> <<"credit", "verified">>]
    /\ rng.raised = "ValidationError"

----------------------------------------------------------------------------
(* Claims about the catalog query caches, checked under SpecCache *)

\* C28 as stated: both functions are read-through caches: once a call has
\* stored the API's response under its key, every later call with the same
\* arguments made before the entry expires returns the stored response
\* without calling the API, whatever the response was, an empty result
\* included; the API is called only when nothing is stored under the key.
C28_ReadThroughCache ==
    cache.last.fn # "none" =>
        /\ cache.last.stored # <<>> =>
              /\ ~ cache.last.api_called
              /\ cache.last.returned = cache.last.stored
        /\ cache.last.api_called => cache.last.stored = <<>>

----------------------------------------------------------------------------
(* Claims about middle_truncate, checked under SpecTruncate *)

\* C35 as stated: middle_truncate(string, chars) raises the invalid-input
\* failure (ValueError) for every string whenever chars is smaller than 3,
\* the length of the truncation indicator.
C35_RaisesBelowIndicator ==
    (trunc.fn = "middle_truncate" /\ trunc.chars < Len(indicator))
        => trunc.raised = "ValueError"

\* C36 as stated: middle_truncate(string, chars) returns the string
\* unchanged when len(string) <= chars; for every string with
\* len(string) > chars >= 3 it returns the first k characters, the indicator
\* and the last k characters with k = floor((chars - 3) / 2), so that the
\* result is never longer than chars.
C36_KeepsBothEnds ==
    trunc.fn = "middle_truncate" =>
        LET n == Len(trunc.string)
            k == (trunc.chars - 3) \div 2
        IN /\ n <= trunc.chars =>
                (trunc.raised = "none" /\ trunc.value = trunc.string)
           /\ (n > trunc.chars /\ trunc.chars >= 3) =>
                /\ trunc.raised = "none"
                /\ trunc.value = SubSeq(trunc.string, 1, k) \o indicator
                                   \o SubSeq(trunc.string, n - k + 1, n)
                /\ Len(trunc.value) <= trunc.chars

----------------------------------------------------------------------------
(* Claims about the enterprise learner cache, checked under SpecLearners *)

\* C38 as stated: get_enterprise_learner_data(site, learner) returns the
\* Enterprise Service response of that learner, fetched or cached: over any
\* sequence of calls for different learners of a site within the timeout, a
\* call made for one learner never returns the response that was fetched
\* for another learner's username.
C38_LearnerGetsOwnData ==
    learners.last.fn = "get_enterprise_learner_data" =>
        learners.last.owner = learners.last.learner

----------------------------------------------------------------------------
(* Claims about conditional offers, checked under SpecOffer *)

\* C31: is_email_valid(email) is true exactly when the offer has no
\* email_domains, or the domain of the email equals an allowed domain, or it
\* ends with a dot followed by an allowed domain; a domain that only has an
\* allowed domain as the end of its text, without the dot, is rejected
\* (testsub.example2.com for sub.example2.com), and is_condition_satisfied
\* is false for a basket whose owner's email is rejected.
C31_EmailDomainOrSubDomain ==
    offer.fn = "is_condition_satisfied" =>
        LET allowed == Split(offer.email_domains, ",")
            domain == EmailDomain(offer.email)
        IN /\ offer.valid <=>
                \/ offer.email_domains = <<>>
                \/ \E i \in 1..Len(allowed) :
                      \/ domain = allowed[i]
                      \/ EndsWith(domain, <<".">> \o allowed[i])
           /\ ~ offer.valid => ~ offer.satisfied

\* the offer of example.com and sub.example2.com rejected the address
\* test@testsub.example2.com, and its condition was not satisfied by a
\* basket that meets it otherwise
C31_Witness ==
    /\ offer.fn = "is_condition_satisfied"
    /\ Len(Split(offer.email_domains, ",")) = 2
    /\ EmailDomain(offer.email)
         = <<"test", "sub", ".", "example2", ".", "com">>
    /\ offer.condition /\ ~ offer.valid /\ ~ offer.satisfied

----------------------------------------------------------------------------
(* Claims about the basket summary view, checked under SpecSummary *)

\* C32: a switch POST on a basket with one line of a paired product leaves
\* exactly one line holding the submitted quantity: the seat when the
\* quantity is exactly 1 and no enrollment code was added
\* (add-enrollment-code) or kept (enrollment-code-selected = yes), the
\* paired enrollment code when the quantity is greater than 1 or an
\* enrollment code was added or kept; the request is redirected to the
\* summary page.
C32_SwitchBetweenSeatAndCode ==
    summary.fn = "post" =>
        LET code == \/ summary.quantity > 1
                    \/ summary.add_enrollment_code
                    \/ summary.enrollment_code_selected = "yes"
        IN /\ Len(summary.lines) = 1
           /\ summary.lines[1].quantity = summary.quantity
           /\ code => summary.lines[1].product = "enrollment_code"
           /\ ~ code => summary.lines[1].product = "seat"
           /\ summary.status = 302 /\ summary.target = "basket:summary"

\* a seat at quantity 1 was exchanged for the enrollment code at quantity 1
\* because add-enrollment-code was sent
C32_Witness ==
    /\ summary.fn = "post"
    /\ summary.before = <<[product |-> "seat", quantity |-> 1]>>
    /\ summary.quantity = 1 /\ summary.add_enrollment_code
    /\ summary.enrollment_code_selected = "no"
    /\ summary.lines = <<[product |-> "enrollment_code", quantity |-> 1]>>

----------------------------------------------------------------------------
(* Claims about the Sailthru signal handlers, checked under SpecSailthru *)

\* the switch is on, the partner has Sailthru and the product is a seat
SailthruApplies ==
    /\ sail.last.switch
    /\ sail.last.enable_sailthru
    /\ sail.last.product.class = "Seat"

\* C33: the handlers dispatch update_course_enrollment only with the
\* sailthru_enable switch on, a partner with Sailthru enabled and a seat; a
\* basket addition needs a price that is not free as well, a checkout
\* completion dispatches whatever the price, free and audit seats included;
\* whenever nothing is dispatched no error is logged.
C33_DispatchOnlyForSeats ==
    /\ sail.last.fn = "process_basket_addition"
          => (sail.last.dispatched # <<>>
                 <=> (SailthruApplies /\ sail.last.price # 0))
    /\ sail.last.fn = "process_checkout_complete"
          => (sail.last.dispatched # <<>> <=> SailthruApplies)
    /\ sail.last.dispatched = <<>> => ~ sail.last.logged

\* the completed checkout of a free audit seat is dispatched
C33_Witness ==
    /\ sail.last.fn = "process_checkout_complete"
    /\ sail.last.product.mode = "audit"
    /\ sail.last.price = 0
    /\ sail.last.dispatched # <<>>

\* the basket addition saves the campaign id of the cookie on the basket,
\* also when it dispatches nothing
CampaignIdSaved ==
    (/\ sail.last.fn = "process_basket_addition"
     /\ SailthruApplies
     /\ sail.last.cookie # "None"
     /\ sail.last.basket)
        => sail.attribute = sail.last.cookie

----------------------------------------------------------------------------
(* Claims about refunds, checked under SpecCredit *)

\* C23: issue_credit returns the request id of the remote transaction
\* exactly when the remote decision is ACCEPT; for every other decision, and
\* for any exception raised while building, sending or recording the
\* request, it raises a gateway failure and returns nothing.
C23_CreditOnlyOnAccept ==
    credit.calls > 0 =>
        LET last == credit.last
            accepted == last.failure = "none" /\ last.decision = "ACCEPT"
        IN /\ accepted => (last.raised = "none" /\ last.value = last.requestID)
           /\ ~ accepted => (last.raised = "GatewayError" /\ last.value = "None")
           /\ last.value # "None" <=> accepted

\* a refund was accepted and gave its request id; before it, a refund was
\* answered and recorded with another decision
C23_Witness ==
    /\ credit.calls = 2
    /\ credit.last.value = "rid2" /\ credit.last.decision = "ACCEPT"
    /\ \E row \in credit.responses : row.decision = "REJECT"

----------------------------------------------------------------------------
(* Claims about the processor, checked under SpecProcessor *)

\* the names assembled by the call recorded in proc: the defaults, the
\* level 2/3 details and line items, and the caller's extra_parameters
AssembledNames ==
    {"access_key", "profile_id", "transaction_uuid", "signed_field_names",
     "unsigned_field_names", "signed_date_time", "locale", "transaction_type",
     "reference_number", "amount", "currency", "consumer_id"}
    \cup (IF proc.level23
          THEN {"amex_data_taa1", "purchasing_level", "line_item_count", "user_po"}
               \cup {ItemKey(n, ItemSuffixes[i]) :
                        n \in 0..(proc.lines - 1), i \in 1..Len(ItemSuffixes)}
          ELSE {})
    \cup DOMAIN proc.extra

\* C1: whenever one of card_cvn, card_expiry_date, card_number, card_type is
\* among the assembled parameter names, get_transaction_parameters raises
\* PCIViolation and returns no parameter set, whatever the other parameters
\* are; a returned, signed parameter set never has one of these four names.
C1_PCIGuard ==
    proc.phase # "idle" =>
        /\ (AssembledNames \cap PCI_FIELDS # {}) =>
              (proc.raised = "PCIViolation" /\ proc.result = EmptyDict)
        /\ (DOMAIN proc.result) \cap PCI_FIELDS = {}
        /\ ("signature" \in DOMAIN proc.result) => AssembledNames \cap PCI_FIELDS = {}

\* a call with exactly one PCI field beside another extra parameter was refused
C1_Witness ==
    /\ proc.phase = "raised"
    /\ proc.raised = "PCIViolation"
    /\ Cardinality((DOMAIN proc.extra) \cap PCI_FIELDS) = 1
    /\ "amount" \in DOMAIN proc.extra

\* C10: is_signature_valid is true of the dictionary get_transaction_parameters
\* returned, and false of that dictionary with the value of one field listed
\* in signed_field_names changed and the signature left as it was.
C10_SignatureRoundTrip ==
    proc.phase = "verified" => (proc.verdict <=> proc.changed = "none")

\* a changed signed field was presented and the signature found invalid
C10_Witness ==
    /\ proc.phase = "verified"
    /\ proc.changed \in {"amount", "signed_field_names"}
    /\ proc.response[proc.changed] # proc.result[proc.changed]
    /\ ~ proc.verdict

\* the place of a parameter name in code point order
Rank(name) == CHOOSE i \in 1..Len(KeyOrder) : KeyOrder[i] = name

\* C21: in the dictionary get_transaction_parameters returns,
\* signed_field_names is the comma-joined, sorted list of every key of the
\* dictionary other than signature, and signature is the signing of the
\* key=value entries joined by commas in the order of signed_field_names.
C21_AllFieldsSignedInOrder ==
    proc.phase = "returned" =>
        LET result == proc.result
            listed == Split(result["signed_field_names"], ",")
            entry(i) == listed[i] \o <<"=">> \o result[listed[i][1]]
        IN /\ \A i \in 1..Len(listed) : Len(listed[i]) = 1
           /\ {listed[i][1] : i \in 1..Len(listed)}
                 = DOMAIN result \ {"signature"}
           /\ \A i, j \in 1..Len(listed) :
                 i < j => Rank(listed[i][1]) < Rank(listed[j][1])
           /\ result["signature"]
                 = sign(Join(<<",">>, [i \in 1..Len(listed) |-> entry(i)]),
                        secret_key)

\* parameters with the details of a basket line and an overridden amount
\* were returned
C21_Witness ==
    /\ proc.phase = "returned"
    /\ proc.level23 /\ proc.lines >= 1
    /\ "amount" \in DOMAIN proc.extra
    /\ {"item_0_code", "amount", "signed_field_names"} \subseteq SignedNames(proc.result)
    /\ "signature" \notin SignedNames(proc.result)

\* C22: on success handle_processor_response returns (transaction_id,
\* req_amount as a decimal, req_currency, req_card_number, payment method);
\* the payment method is visa for 001, mastercard for 002, american_express
\* for 003, discover for 004 and no value for every other code; a code
\* outside the table does not make an accepted response fail.
C22_PaymentMethodFromTable ==
    proc.phase = "handled" =>
        LET response == proc.response
            code == response["req_card_type"]
            method == IF code = <<"001">> THEN "visa"
                      ELSE IF code = <<"002">> THEN "mastercard"
                      ELSE IF code = <<"003">> THEN "american_express"
                      ELSE IF code = <<"004">> THEN "discover"
                      ELSE "None"
        IN /\ proc.handled.raised = "none" =>
                 proc.handled.value
                   = <<response["transaction_id"], Decimal(response["req_amount"]),
                       response["req_currency"], response["req_card_number"],
                       method>>
           /\ (/\ is_signature_valid(response) /\ proc.word = "accept"
               /\ proc.auth_amount = proc.req_amount)
              => proc.handled.raised = "none"

\* an accepted payment with a card type outside the table was handled
\* without a failure and gave no payment method
C22_Witness ==
    /\ proc.phase = "handled"
    /\ proc.response["req_card_type"] = <<"005">>
    /\ proc.handled.raised = "none"
    /\ proc.handled.value[5] = "None"
    /\ proc.handled.value[2] = 1000

\* C11: for a response whose signature is valid, handle_processor_response
\* reads the decision whatever its case: accept with auth_amount equal to
\* req_amount returns the 5-tuple and raises nothing, cancel raises
\* UserCancelled, decline TransactionDeclined, error GatewayError and any
\* other decision InvalidCybersourceDecision.
C11_DecisionMapping ==
    (proc.phase = "handled" /\ is_signature_valid(proc.response)) =>
        /\ (proc.word = "accept" /\ proc.auth_amount = proc.req_amount) =>
              /\ proc.handled.raised = "none"
              /\ Len(proc.handled.value) = 5
              /\ proc.handled.value[1] = proc.response["transaction_id"]
        /\ proc.word = "cancel" => proc.handled.raised = "UserCancelled"
        /\ proc.word = "decline" => proc.handled.raised = "TransactionDeclined"
        /\ proc.word = "error" => proc.handled.raised = "GatewayError"
        /\ proc.word \notin {"accept", "cancel", "decline", "error"} =>
              proc.handled.raised = "InvalidCybersourceDecision"
        /\ proc.handled.raised # "none" => proc.handled.value = <<>>

\* a validly signed response with the decision spelled ACCEPT and equal
\* amounts was handled and gave the 5-tuple
C11_Witness ==
    /\ proc.phase = "handled"
    /\ is_signature_valid(proc.response)
    /\ proc.response["decision"] = <<"ACCEPT">>
    /\ proc.auth_amount = proc.req_amount
    /\ proc.handled.raised = "none" /\ Len(proc.handled.value) = 5

\* C12: for a response with a valid signature and the decision accept,
\* handle_processor_response raises PartialAuthorizationError and returns
\* nothing whenever auth_amount differs from req_amount, by however little.
C12_PartialAuthorizationRejected ==
    (/\ proc.phase = "handled" /\ is_signature_valid(proc.response)
     /\ proc.word = "accept"
     /\ Decimal(proc.auth_amount) # Decimal(proc.req_amount)) =>
        /\ proc.handled.raised = "PartialAuthorizationError"
        /\ proc.handled.value = <<>>

\* an accept that authorized one cent less than requested was refused
C12_Witness ==
    /\ proc.phase = "handled"
    /\ is_signature_valid(proc.response)
    /\ proc.word = "accept"
    /\ Decimal(proc.req_amount) - Decimal(proc.auth_amount) = 1
    /\ proc.handled.raised = "PartialAuthorizationError"

\* C37: handle_processor_response checks the signature, then the decision,
\* then the amounts: a response without parameters and a response whose
\* signature does not match raise InvalidSignatureError whatever their
\* decision and amounts are; a correctly signed response whose decision is
\* not accept raises the exception of its decision also when auth_amount
\* differs from req_amount; PartialAuthorizationError is raised only for a
\* correctly signed accept.
C37_SignatureThenDecisionThenAmount ==
    proc.phase = "handled" =>
        /\ ~ is_signature_valid(proc.response) =>
              proc.handled.raised = "InvalidSignatureError"
        /\ (is_signature_valid(proc.response) /\ proc.word # "accept") =>
              proc.handled.raised = DecisionException(<<proc.word>>)
        /\ proc.handled.raised = "PartialAuthorizationError" =>
              /\ is_signature_valid(proc.response)
              /\ proc.word = "accept"
              /\ proc.auth_amount # proc.req_amount

\* a decline signed with another secret whose amounts differ was refused for
\* its signature
C37_Witness ==
    /\ proc.phase = "handled"
    /\ proc.response # EmptyDict
    /\ ~ is_signature_valid(proc.response)
    /\ proc.word = "decline"
    /\ proc.auth_amount # proc.req_amount
    /\ proc.handled.raised = "InvalidSignatureError"

----------------------------------------------------------------------------
(* Claims about the sanctions screening, checked under SpecSdn *)

\* C17 as stated: screening is invoked only when SDN checking is enabled in
\* the site configuration; with it disabled a submit request sends no
\* screening request, records no SDN check failure and proceeds to the
\* parameter generation.
C17_ScreeningOnlyWhenEnabled ==
    (sdn.last.caller = "submit" /\ ~ sdn.last.request.enable_sdn_check) =>
        /\ ~ sdn.last.sent
        /\ sdn.last.created = {}
        /\ sdn.last.outcome = "proceeds"

----------------------------------------------------------------------------
(* Claims about the checkout views, checked under Spec *)

Submits == {r \in Requests : req[r].kind = "submit"}

Notifications == {r \in Requests : req[r].kind \in {"notify", "interstitial"}}

\* the signed parameters in the response of submit request r (lines 127-136)
Returned(r) ==
    IF req[r].kind = "submit" /\ req[r].issues /\ req[r].status = 200
    THEN Pop(SubmitSigned[r, req[r].basket].value, "payment_page_url")
    ELSE EmptyDict

\* C2: at the notification and at the interstitial endpoint create_order is
\* reached for a notification only if its signature verified, its decision
\* was accept, its auth_amount equalled its req_amount and its basket was
\* resolved; no order comes from a notification that fails one of these.
C2_OrderOnlyAfterValidation ==
    /\ \A r \in Requests :
          (req[r].pc = "create" \/ req[r].created) =>
              LET notification == Posted[req[r].source]
              IN /\ r \in Notifications
                 /\ ~ SignatureRaises(notification)
                 /\ is_signature_valid(notification)
                 /\ lower(notification["decision"]) = <<"accept">>
                 /\ notification["auth_amount"] = notification["req_amount"]
                 /\ req[r].basket \in BasketIds
                 /\ req[r].basket = basket_id(notification["req_reference_number"])
    /\ \A o \in orders : req[o.request].created

\* an order was placed for an accepted notification, after a notification
\* with a partial authorization was answered without reaching create_order
C2_Witness ==
    \E r, q \in Notifications :
        /\ req[r].created /\ \E o \in orders : o.request = r
        /\ req[q].pc = "done" /\ ~ req[q].created
        /\ req[q].exception = "PartialAuthorizationError"
        /\ \A o \in orders : o.request # q

C5_NotOpenRejected ==
    \A r \in Submits :
        /\ req[r].seen # OPEN =>
              /\ req[r].pc = "done" /\ req[r].status = 400
              /\ Returned(r) = EmptyDict /\ ~ req[r].issues
              /\ ~ req[r].froze
        /\ req[r].froze => req[r].seen = OPEN

\* a submit request found the basket Frozen by an earlier one and was
\* rejected; the basket is Frozen as before
C5_Witness ==
    \E r, q \in Submits :
        /\ req[q].froze /\ req[q].status = 200
        /\ req[r].seen = FROZEN /\ req[r].status = 400
        /\ req[r].basket = req[q].basket
        /\ baskets[req[r].basket] = FROZEN

\* C6: submit freezes the basket as its last step, after the signed
\* parameters and the JSON response were constructed: a submit request that
\* ends in a failure of the SDN check, of the offers, of the parameter
\* generation or of the response leaves the basket as it found it (Open), and
\* the step of a submit request that changes a basket is the one that follows
\* the construction of the response.
C6_FreezeLast ==
    [][\A r \in Requests :
          /\ (req[r].kind = "none" /\ req'[r].kind = "submit") =>
                /\ baskets' = baskets
                /\ ~ req'[r].froze
                /\ (req'[r].seen = OPEN /\ req'[r].pc = "done") =>
                      /\ req'[r].status \in {400, 500}
                      /\ baskets'[req'[r].basket] = OPEN
          /\ (req[r].kind = "submit" /\ req'[r] # req[r] /\ baskets' # baskets) =>
                /\ req[r].pc = "freeze" /\ req[r].issues
                /\ req'[r].status = 200]_vars

\* a submit request found the basket Open, failed after the status check and
\* left it Open; another built its response and stands before the freeze
C6_Witness ==
    \E r, q \in Submits :
        /\ req[r].seen = OPEN /\ req[r].pc = "done" /\ req[r].status = 500
        /\ ~ req[r].froze
        /\ req[q].pc = "freeze" /\ req[q].basket = req[r].basket
        /\ baskets[req[r].basket] = OPEN

C8_OrderOnlyWhileFrozen ==
    \A o \in orders : o.placed_in = FROZEN

\* C9 as stated: when the notification or the interstitial endpoint has
\* processed a user-cancelled or declined response for a Frozen basket, the
\* basket is Open and no order exists for that response.
C9_OpenAfterCancelOrDecline ==
    [][\A r \in Requests :
          (/\ req[r].pc # "done" /\ req'[r].pc = "done"
           /\ req'[r].kind \in {"notify", "interstitial"}
           /\ req'[r].exception \in {"UserCancelled", "TransactionDeclined"}
           /\ baskets[req'[r].basket] = FROZEN)
          => /\ baskets'[req'[r].basket] = OPEN
             /\ \A o \in orders' : o.request # r]_vars

\* the notification of request r
NotificationOf(r) == Posted[req[r].source]

\* the reference of the notification of request r names a basket that exists
NamesBasket(r) ==
    /\ IsOrderNumber(NotificationOf(r)["req_reference_number"])
    /\ basket_id(NotificationOf(r)["req_reference_number"]) \in BasketIds

\* C13: the notification endpoint answers 400 and creates no order when the
\* basket the notification references does not exist, and when the signature
\* of the notification is not the one recomputed with the secret.
C13_NotifyRejectsInvalid ==
    \A r \in Requests :
        (req[r].kind = "notify" /\ req[r].pc = "done") =>
            LET reference == NotificationOf(r)["req_reference_number"]
                unresolved == /\ IsOrderNumber(reference)
                              /\ basket_id(reference) \notin BasketIds
                mismatch == /\ NamesBasket(r)
                            /\ req[r].source.how \in {"unsigned", "decision"}
            IN (unresolved \/ mismatch) =>
                  /\ req[r].status = 400
                  /\ ~ req[r].created
                  /\ \A o \in orders : o.request # r

\* the notification endpoint answered 400 to a notification for a basket
\* that does not exist and to one whose signature did not match
C13_Witness ==
    \E r, q \in Requests :
        /\ req[r].kind = "notify" /\ req[r].pc = "done"
        /\ req[r].exception = "InvalidBasketError" /\ req[r].status = 400
        /\ req[q].kind = "notify" /\ req[q].pc = "done"
        /\ req[q].source.how = "unsigned" /\ NamesBasket(q)
        /\ req[q].status = 400
        /\ orders = {}

\* C14: the notification endpoint answers a correctly signed notification
\* whose outcome is a cancellation, a decline or another payment error
\* (gateway error, unknown decision, partial authorization) with a 200 and
\* creates no order; it answers 500 for every other failure, a failure of the
\* order creation after a successful validation included, and 200 after the
\* order was created.
C14_NotifyStatus ==
    \A r \in Requests :
        (req[r].kind = "notify" /\ req[r].pc = "done") =>
            LET signed == req[r].source.by = "gateway" /\ NamesBasket(r)
                outcome == req[r].source.outcome
                accepted == signed /\ outcome[1] = "ACCEPT"
                                   /\ outcome[2] = outcome[3]
                placed == \E o \in orders : o.request = r
            IN /\ (signed /\ ~ accepted) =>
                     (req[r].status = 200 /\ ~ req[r].created /\ ~ placed)
               /\ placed => (req[r].status = 200 /\ accepted)
               /\ (accepted /\ ~ placed) => req[r].status = 500
               /\ req[r].source.how = "reference" => req[r].status = 500
               /\ req[r].status \in {200, 400, 500}
               /\ req[r].status = 400 => ~ signed

\* the endpoint answered 200 to a partial authorization without creating an
\* order, and 500 to an accepted payment whose order could not be placed
C14_Witness ==
    \E r, q \in Requests :
        /\ req[r].kind = "notify" /\ req[r].pc = "done"
        /\ req[r].exception = "PartialAuthorizationError"
        /\ req[r].status = 200 /\ ~ req[r].created
        /\ req[q].kind = "notify" /\ req[q].pc = "done"
        /\ req[q].created /\ req[q].status = 500
        /\ \A o \in orders : o.request # q

\* the interstitial requests that were answered
Interstitials ==
    {r \in Requests : req[r].kind = "interstitial" /\ req[r].pc = "done"}

\* C15: on the interstitial endpoint a validated accept notification leads
\* to order creation and then to a redirect to the receipt URL with the
\* session flag fire_tracking_events set; the flag is set only after
\* create_order succeeded, and every other outcome redirects to the
\* payment-error page or to the basket summary without setting the flag.
C15_TrackingFlagAfterOrder ==
    /\ \A r \in Requests \ Interstitials : ~ req[r].fire_tracking_events
    /\ \A r \in Interstitials :
          LET placed == \E o \in orders : o.request = r
          IN /\ req[r].status = 302
             /\ req[r].target \in {"receipt", "payment_error", "basket_summary"}
             /\ req[r].fire_tracking_events <=> req[r].target = "receipt"
             /\ req[r].fire_tracking_events =>
                   (placed /\ req[r].created /\ req[r].exception = "none"
                    /\ Handled[req[r].source].raised = "none")
             /\ req[r].target = "basket_summary" =>
                   (~ req[r].created /\ IsPaymentError(req[r].exception))
             /\ ~ placed => ~ req[r].fire_tracking_events

\* one interstitial request was redirected to the receipt with the flag set,
\* another to the payment-error page after its order could not be placed
C15_Witness ==
    \E r, q \in Interstitials :
        /\ req[r].target = "receipt" /\ req[r].fire_tracking_events
        /\ \E o \in orders : o.request = r
        /\ req[q].created /\ req[q].target = "payment_error"
        /\ ~ req[q].fire_tracking_events

\* C16 as stated: the submit endpoint performs the SDN check with the
\* submitted full name and country before it generates any parameters; on a
\* match it answers 400, returns no signed parameters and leaves the basket
\* Open; when the check passes it goes on to return the signed parameters.
\* The check therefore returns a result for every basket that was seen Open.
C16_SdnCheckDecides ==
    \A r \in Submits :
        (req[r].pc = "done" /\ req[r].seen = OPEN) =>
            /\ req[r].exception # "TypeError"
            /\ req[r].exception = "SDN" =>
                  (req[r].status = 400 /\ ~ req[r].issues /\ ~ req[r].froze
                   /\ Returned(r) = EmptyDict)

\* C20: the total of the order placed by create_order is computed from the
\* basket's stored amounts only: two validated accept notifications for the
\* same basket that differ only in req_amount and auth_amount lead to the
\* same order total, and no order has the amount the gateway reported unless
\* it is the basket's.
C20_TotalFromBasket ==
    /\ \A o \in orders :
          o.total = Decimal(SubmitBasket(o.basket).total_incl_tax)
    /\ \A r \in Notifications :
          req[r].pc = "create" =>
              \A s \in Sources :
                  (/\ s.by = "gateway" /\ s.id = req[r].source.id
                   /\ s.outcome[1] = "ACCEPT" /\ s.outcome[2] = s.outcome[3])
                  => {o.total : o \in create_order(r, req[r].basket,
                                                   Posted[s], FALSE).orders}
                     = {o.total : o \in create_order(r, req[r].basket,
                                                     NotificationOf(r),
                                                     FALSE).orders}

\* an order was placed from a validated notification that reported an
\* amount of 100.00 for a basket whose stored total is 10.00
C20_Witness ==
    \E o \in orders :
        /\ req[o.request].source.outcome
               = <<"ACCEPT", <<"100.00">>, <<"100.00">>>>
        /\ SubmitBasket(o.basket).total_incl_tax = <<"10.00">>
        /\ o.total = 1000

\* C39 as stated: once an order has been created for a basket, no later
\* request to the notification or the interstitial endpoint, a replay of a
\* correctly signed cancel or decline notification included, returns the
\* basket to the Open state; the interstitial endpoint thaws only a basket
\* that is Frozen.  A basket with an order is therefore never Open.
C39_NotReopenedAfterOrder ==
    \A b \in BasketIds :
        (\E o \in orders : o.basket = b) => baskets[b] # OPEN

\* C40 as stated: order creation is attempted at most once per basket: over
\* any sequence and interleaving of deliveries of a correctly signed accept
\* notification to the notification and the interstitial endpoint,
\* create_order is invoked at most once for the basket and at most one order
\* results.
C40_OrderAttemptedOnce ==
    \A b \in BasketIds :
        /\ Cardinality({r \in Requests :
                           req[r].created /\ req[r].basket = b}) <= 1
        /\ Cardinality({o \in orders : o.basket = b}) <= 1

====
